---- MODULE Spec2Model ----
(***************************************************************************)
(* A model of the insightbot-app news pipeline:                            *)
(*   scripts/ingest_rss.py, scripts/ingest_urls.py,                        *)
(*   scripts/preprocess_html.py, scripts/extract_content.py,               *)
(*   scripts/publish.py and the loader, the date filter and the metrics    *)
(*   endpoints of src/insightbot/api/app.py.                               *)
(*                                                                         *)
(* Strings are sequences of one-character strings, so that strip(),        *)
(* lower() and lexicographic comparison are computed, not assumed.         *)
(* A CSV file on disk is a record [cols, rows, torn]; a pandas frame in    *)
(* memory is a record [cols, rows] whose cells may be NaN.                 *)
(***************************************************************************)
EXTENDS Integers, Sequences, FiniteSets, TLC

VARIABLES
    files,      \* data/processed/latest: file name -> Absent or a CSV file
    pc,         \* position of the running script
    args,       \* publish.py command line: [with_html, skip_rss, merge_only]
    frames,     \* publish.py: the frames read for the final merge
    loaded,     \* app.py: the frame load_articles() returned (or NotLoaded)
    pages,      \* data/interim/seed: the pages extract_content.py reads
    html_before, \* publish.py: the csv files present before the extract step
    before,     \* history: file name -> was present and whole at run start
    failed,     \* history: some stage of this run failed
    writers,    \* history: file name -> the stages that wrote/renamed it
    rc,         \* publish.py exit code (0 when it reaches "Done.")
    ended,      \* history: data/processed/latest at the end of each merge so far
    steps,      \* history: <<stage, exit code>> of each run_step() of this run
    cfg,        \* ingest_rss.py: load_sources(args.config)
    si,         \* ingest_rss.py: index of the next source of the loop
    rows,       \* ingest_rss.py: rows
    seen,       \* ingest_rss.py: seen
    keptBy,     \* history: the rows each processed source appended
    urlSources, \* ingest_urls.py: load_sources(args.config)
    ignore_robots, \* ingest_urls.py: args.ignore_robots
    fetchIdx,   \* ingest_urls.py: index of the next source of the loop
    manifest,   \* data/raw/seed/_manifest.csv
    raw,        \* data/raw/seed: the paths of the artifacts written
    manifest0,  \* history: _manifest.csv when the run started
    lookups,    \* history: <<source, answer>> of each robots.txt lookup
    requested,  \* history: the sources whose url was requested
    qdf,        \* app.py: the frame handed to apply_date_filter
    date_key,   \* app.py: the date_key of the request
    now,        \* app.py: datetime.now(timezone.utc)
    qout,       \* app.py: the frame apply_date_filter returned
    top,        \* app.py: the top parameter of /api/metrics/sources
    data,       \* app.py: the list a metrics endpoint returned
    html        \* data/raw/seed: the html pages preprocess_html.py reads

pubVars == <<args, frames, pages, html_before, before, failed, writers, rc, ended, steps>>

rssVars == <<cfg, si, rows, seen, keptBy>>

fetchVars == <<urlSources, ignore_robots, fetchIdx, manifest, raw, manifest0, lookups, requested>>

queryVars == <<qdf, date_key, now, qout, top, data>>

webVars == <<fetchVars, queryVars, html>>

vars == <<files, pc, loaded, pubVars, rssVars, webVars>>

\* ingest_urls.py is not running
FetchIdle ==
    /\ urlSources = <<>>
    /\ ignore_robots = FALSE
    /\ fetchIdx = 0
    /\ manifest = [exists |-> FALSE, rows |-> <<>>]
    /\ raw = {}
    /\ manifest0 = manifest
    /\ lookups = {}
    /\ requested = {}

\* no request to the dashboard is being served
QueryIdle ==
    /\ qdf = <<>>
    /\ date_key = <<>>
    /\ now = [day |-> 0, sec |-> 0]
    /\ qout = <<>>
    /\ top = 15
    /\ data = <<>>

\* data/raw/seed holds no html page
HtmlIdle == html = <<>>

WebIdle == FetchIdle /\ QueryIdle /\ HtmlIdle

----------------------------------------------------------------------------
(* Bounds of the model *)

\* rows in all merge input tables together (SpecMerge)
MaxRows == 3

\* the most runs of publish.py --merge-only in a row
MaxRuns == 2

----------------------------------------------------------------------------
(* Strings *)

Space == " "

\* the characters the model's strings are made of, in code-point order
CharOrder ==
    <<" ", ".", "/", "0", "1", "2", "3", "4", "5", "6", "7", "8", "9",
      "A", "E", "U", "W", "Z", "a", "g", "h", "i", "l", "n", "s", "u", "w", "x">>

CharRank(c) == CHOOSE i \in 1..Len(CharOrder) : CharOrder[i] = c

UpperChars == <<"A", "U", "W", "Z">>

LowerChars == <<"a", "u", "w", "z">>

\* str.lower() on one character
LowerChar(c) ==
    IF \E i \in 1..Len(UpperChars) : UpperChars[i] = c
    THEN LowerChars[CHOOSE i \in 1..Len(UpperChars) : UpperChars[i] = c]
    ELSE c

\* str.lower()
Lower(s) == [i \in 1..Len(s) |-> LowerChar(s[i])]

RECURSIVE LStrip(_)
LStrip(s) == IF s # <<>> /\ Head(s) = Space THEN LStrip(Tail(s)) ELSE s

RECURSIVE RStrip(_)
RStrip(s) ==
    IF s # <<>> /\ s[Len(s)] = Space THEN RStrip(SubSeq(s, 1, Len(s) - 1)) ELSE s

\* str.strip()
Strip(s) == RStrip(LStrip(s))

\* Python's s < t on strings: lexicographic by code point
RECURSIVE StrLess(_, _)
StrLess(s, t) ==
    IF t = <<>> THEN FALSE
    ELSE IF s = <<>> THEN TRUE
    ELSE IF Head(s) # Head(t) THEN CharRank(Head(s)) < CharRank(Head(t))
    ELSE StrLess(Tail(s), Tail(t))

----------------------------------------------------------------------------
(* Tables *)

\* keep_cols / REQUIRED_COLS
keep_cols == <<"title", "body", "language", "date", "source", "url">>

Cols == {keep_cols[i] : i \in 1..Len(keep_cols)}

\* pandas' missing value; no string of the model equals it
NaN == <<"NaN">>

Empty == <<>>

Absent == [kind |-> "absent"]

\* a completely written CSV file
CsvFile(cols, rs) == [kind |-> "csv", cols |-> cols, rows |-> rs, torn |-> FALSE]

\* what an interrupted open(..., "w") + write leaves: a prefix of the rows
\* (no header at all when cols = {})
TornFile(cols, rs) == [kind |-> "csv", cols |-> cols, rows |-> rs, torn |-> TRUE]

Whole(f) == f.kind = "csv" /\ ~f.torn

Frame(cols, rs) == [cols |-> cols, rows |-> rs]

\* pd.read_csv raises on a file with no header line (EmptyDataError)
Readable(f) == f.kind = "csv" /\ f.cols # {}

\* pd.read_csv: an empty field is read as NaN
ReadCell(v) == IF v = Empty THEN NaN ELSE v

read_csv(f) ==
    Frame(f.cols, [i \in 1..Len(f.rows) |-> [c \in f.cols |-> ReadCell(f.rows[i][c])]])

\* DataFrame.to_csv: NaN is written as the empty field (na_rep = "")
WriteCell(v) == IF v = NaN THEN Empty ELSE v

to_csv(df) ==
    CsvFile(df.cols, [i \in 1..Len(df.rows) |-> [c \in df.cols |-> WriteCell(df.rows[i][c])]])

\* one row of a frame widened to the columns cs: cells it lacks are NaN
Reindex(row, cs) == [c \in cs |-> IF c \in DOMAIN row THEN row[c] ELSE NaN]

RECURSIVE AllCols(_)
AllCols(fs) == IF fs = <<>> THEN {} ELSE Head(fs).cols \cup AllCols(Tail(fs))

RECURSIVE AllRows(_, _)
AllRows(fs, cs) ==
    IF fs = <<>> THEN <<>>
    ELSE [i \in 1..Len(Head(fs).rows) |-> Reindex(Head(fs).rows[i], cs)]
         \o AllRows(Tail(fs), cs)

\* pd.concat(frames, ignore_index=True): union of the columns, rows in order
concat(fs) == Frame(AllCols(fs), AllRows(fs, AllCols(fs)))

\* a variant that fills a missing column with the text "nan"
FillColsNan(df) ==
    Frame(df.cols \cup Cols,
          [i \in 1..Len(df.rows) |->
              [c \in df.cols \cup Cols |->
                  IF c \in df.cols THEN df.rows[i][c] ELSE <<"n", "a", "n">>]])

\* for col in keep_cols: if col not in df.columns: df[col] = ""
FillCols(df) ==
    Frame(df.cols \cup Cols,
          [i \in 1..Len(df.rows) |->
              [c \in df.cols \cup Cols |-> IF c \in df.cols THEN df.rows[i][c] ELSE Empty]])

\* df[keep_cols]
Project(df, cs) == Frame(cs, [i \in 1..Len(df.rows) |-> [c \in cs |-> df.rows[i][c]]])

\* a variant that compares the keys stripped and lower-cased
DropDuplicatesNormalized(rs, key) ==
    LET F[i \in 0..Len(rs)] ==
            IF i = 0 THEN <<>>
            ELSE IF \A j \in 1..(i - 1) :
                        Lower(Strip(rs[j][key])) # Lower(Strip(rs[i][key]))
                 THEN Append(F[i - 1], rs[i])
                 ELSE F[i - 1]
    IN F[Len(rs)]

\* DataFrame.drop_duplicates(subset=[key]), keep="first": a row stays when no
\* earlier row has the same key cell (NaN counts as equal to NaN)
DropDuplicates(rs, key) ==
    LET F[i \in 0..Len(rs)] ==
            IF i = 0 THEN <<>>
            ELSE IF \A j \in 1..(i - 1) : rs[j][key] # rs[i][key]
                 THEN Append(F[i - 1], rs[i])
                 ELSE F[i - 1]
    IN F[Len(rs)]

\* the sort key order of sort_values(ascending=False): NaN goes last
KeyGt(a, b) == a # NaN /\ (b = NaN \/ StrLess(b, a))

RECURSIVE InsertDesc(_, _, _)
InsertDesc(r, s, key) ==
    IF s = <<>> THEN <<r>>
    ELSE IF KeyGt(Head(s)[key], r[key]) THEN <<Head(s)>> \o InsertDesc(r, Tail(s), key)
    ELSE <<r>> \o s

\* DataFrame.sort_values(key, ascending=False); rows of equal key keep their order
RECURSIVE SortDesc(_, _)
SortDesc(rs, key) ==
    IF rs = <<>> THEN <<>> ELSE InsertDesc(Head(rs), SortDesc(Tail(rs), key), key)

\* a variant of the merge that sorts before it drops duplicates
MergeSortFirst(fs) ==
    LET df == Project(FillCols(concat(fs)), Cols)
    IN Frame(Cols, DropDuplicates(SortDesc(df.rows, "date"), "url"))

\* publish.py, the body of "if frames:": concat, fill the six columns,
\* drop duplicate urls, sort by date descending
Merge(fs) ==
    LET df == Project(FillCols(concat(fs)), Cols)
    IN Frame(Cols, SortDesc(DropDuplicates(df.rows, "url"), "date"))

----------------------------------------------------------------------------
(* The files of data/processed/latest *)

rss_csv == "articles_rss.csv"

html_csv == "articles_html.csv"

final_csv == "articles.csv"

FileNames == {rss_csv, html_csv, final_csv}

NotLoaded == [cols |-> {}, rows |-> <<>>, state |-> "not loaded"]

NoArgs == [with_html |-> FALSE, skip_rss |-> FALSE, merge_only |-> TRUE]

\* a variant that takes an unreadable file as an empty table
ReadOrEmpty(f) ==
    IF f.kind # "csv" THEN <<>>
    ELSE IF f.cols = {} THEN <<Frame({}, <<>>)>> ELSE <<read_csv(f)>>

\* "if p.exists(): try: frames.append(pd.read_csv(p)) except: warn"
ReadIfUsable(f) == IF Readable(f) THEN <<read_csv(f)>> ELSE <<>>

\* publish.py: the frames of the final merge, rss first, then html
ReadFrames(fs) == ReadIfUsable(fs[rss_csv]) \o ReadIfUsable(fs[html_csv])

\* the prefixes an interrupted write of the file f can leave on disk
TornWrites(f) ==
    {TornFile({}, <<>>)} \cup {TornFile(f.cols, SubSeq(f.rows, 1, k)) : k \in 0..(Len(f.rows) - 1)}

\* a variant of the write that opens the file with mode "a"
AppendTo(old, new) ==
    IF old.kind = "csv" THEN CsvFile(new.cols, old.rows \o new.rows) ELSE new

\* df.to_csv(path): the file is replaced by the frame written
Overwrite(old, new) == new

\* publish.py "Final merge": read what exists, merge, write articles.csv
FinalMerge ==
    /\ pc = "merge"
    /\ frames' = ReadFrames(files)
    /\ IF frames' # <<>>
       THEN /\ files' = [files EXCEPT ![final_csv] = Overwrite(@, to_csv(Merge(frames')))]
            /\ writers' = [writers EXCEPT ![final_csv] = @ \cup {"merge"}]
       ELSE UNCHANGED <<files, writers>>
    /\ pc' = "done"
    /\ rc' = 0
    /\ ended' = Append(ended, files')
    /\ UNCHANGED <<args, loaded, pages, html_before, before, failed, steps, rssVars, webVars>>

\* publish.py --merge-only started once more after a run that ended
MergeAgain ==
    /\ pc = "done"
    /\ args.merge_only
    /\ Len(ended) < MaxRuns
    /\ pc' = "merge"
    /\ frames' = <<>>
    /\ UNCHANGED <<files, loaded, args, pages, html_before, before, ended, steps, failed, writers, rc,
                   rssVars, webVars>>

\* the same step interrupted while df.to_csv(final_csv) is writing
FinalMergeTorn ==
    /\ pc = "merge"
    /\ frames' = ReadFrames(files)
    /\ frames' # <<>>
    /\ \E t \in TornWrites(to_csv(Merge(frames'))) :
           files' = [files EXCEPT ![final_csv] = t]
    /\ writers' = [writers EXCEPT ![final_csv] = @ \cup {"merge"}]
    /\ pc' = "killed"
    /\ failed' = TRUE
    /\ rc' = 1
    /\ UNCHANGED <<args, loaded, pages, html_before, before, ended, steps, rssVars, webVars>>

----------------------------------------------------------------------------
(* app.py: load_articles *)

\* Series.astype(str) on one cell
AsStr(v) == IF v = NaN THEN <<"n", "a", "n">> ELSE v

\* one file of the loop: keep the required columns it has, add the others as ""
LoadOne(f) ==
    LET df == read_csv(f)
        kept == Project(df, df.cols \cap Cols)
    IN Project(FillCols(kept), Cols)

RECURSIVE LoadAll(_, _)
LoadAll(order, fs) ==
    IF order = <<>> THEN <<>>
    ELSE (IF Readable(fs[Head(order)]) THEN <<LoadOne(fs[Head(order)])>> ELSE <<>>)
         \o LoadAll(Tail(order), fs)

\* DataFrame.drop_duplicates(): a row stays when no earlier row equals it
DropEqualRows(rs) ==
    LET F[i \in 0..Len(rs)] ==
            IF i = 0 THEN <<>>
            ELSE IF \A j \in 1..(i - 1) : rs[j] # rs[i]
                 THEN Append(F[i - 1], rs[i])
                 ELSE F[i - 1]
    IN F[Len(rs)]

\* load_articles() over the csv files in the order glob returned them
load_articles(order, fs) ==
    LET fr == LoadAll(order, fs)
    IN IF fr = <<>> THEN Frame(Cols, <<>>)
       ELSE LET out == DropEqualRows(concat(fr).rows)
            IN Frame(Cols, [i \in 1..Len(out) |->
                               [out[i] EXCEPT !["date"] = AsStr(@)]])

\* the orders glob.glob may list the files that exist in
GlobOrders(fs) ==
    LET present == {n \in FileNames : fs[n].kind = "csv"}
    IN {o \in UNION {[1..k -> present] : k \in {Cardinality(present)}} :
           \A i, j \in DOMAIN o : i # j => o[i] # o[j]}

\* a request of the Query Service loads the tables
LoadArticles ==
    /\ pc = "done"
    /\ loaded = NotLoaded
    /\ \E o \in GlobOrders(files) : loaded' = load_articles(o, files) @@ [state |-> "loaded"]
    /\ UNCHANGED <<files, pc, pubVars, rssVars, webVars>>

----------------------------------------------------------------------------
(* scripts/ingest_rss.py *)

N_PER_SOURCE == 8

\* entries of the longest feed of the model (more than N_PER_SOURCE)
MaxEntries == 10

\* sources in a configuration
MaxSources == 2

DigitChars == <<"0", "1", "2", "3", "4", "5", "6", "7", "8", "9">>

\* a number below 100 as two decimal digits
Dec(k) == <<DigitChars[(k \div 10) + 1], DigitChars[(k % 10) + 1]>>

None == <<"None">>

\* datetime.now(timezone.utc).isoformat(): later than every date of a feed
NowIso == <<"9", "9">>

\* parse_date: a published value "<dd>Z" parses to the UTC text "<dd>";
\* a missing or unparsable value gives None
parse_date(val) ==
    IF Len(val) = 3 /\ val[3] = "Z"
          /\ \A i \in 1..2 : \E d \in 1..Len(DigitChars) : DigitChars[d] = val[i]
    THEN SubSeq(val, 1, 2)
    ELSE None

\* a variant that hashes the stripped url without lower-casing it
UrlHashCaseSensitive(u) == <<"sha256", Strip(u)>>

\* url_hash: sha256 of the stripped, lower-cased url; the hash is taken to be
\* free of collisions, so it is the tagged normalised url
url_hash(u) == <<"sha256", Lower(Strip(u))>>

\* the record main() builds of one feed entry of source src
ItemOf(src, e) ==
    [c \in Cols |->
        IF c = "url" THEN Strip(e.link)
        ELSE IF c = "date"
             THEN (IF parse_date(e.published) # None THEN parse_date(e.published) ELSE NowIso)
        ELSE IF c = "source" THEN src.name
        ELSE IF c = "language" THEN src.language
        ELSE <<"x">>]

\* a variant that builds a record of every entry, with a link or not
RECURSIVE ItemsOfAll(_, _)
ItemsOfAll(src, entries) ==
    IF entries = <<>> THEN <<>>
    ELSE <<ItemOf(src, Head(entries))>> \o ItemsOfAll(src, Tail(entries))

\* "for e in d.entries: if not link: continue; items.append(...)"
RECURSIVE ItemsOf(_, _)
ItemsOf(src, entries) ==
    IF entries = <<>> THEN <<>>
    ELSE (IF Head(entries).link = Empty THEN <<>> ELSE <<ItemOf(src, Head(entries))>>)
         \o ItemsOf(src, Tail(entries))

\* a variant of the loop in which an entry dropped as seen counts toward the cap
RECURSIVE KeepLoopCountsDropped(_, _, _)
KeepLoopCountsDropped(items, seenSet, kept) ==
    IF items = <<>> \/ kept >= N_PER_SOURCE THEN [rows |-> <<>>, seen |-> seenSet]
    ELSE IF url_hash(Head(items)["url"]) \in seenSet
         THEN KeepLoopCountsDropped(Tail(items), seenSet, kept + 1)
         ELSE LET rest == KeepLoopCountsDropped(Tail(items),
                              seenSet \cup {url_hash(Head(items)["url"])}, kept + 1)
              IN [rows |-> <<Head(items)>> \o rest.rows, seen |-> rest.seen]

\* "for it in items: if kept >= N_PER_SOURCE: break; skip if seen; else keep"
RECURSIVE KeepLoop(_, _, _)
KeepLoop(items, seenSet, kept) ==
    IF items = <<>> \/ kept >= N_PER_SOURCE THEN [rows |-> <<>>, seen |-> seenSet]
    ELSE IF url_hash(Head(items)["url"]) \in seenSet
         THEN KeepLoop(Tail(items), seenSet, kept)
         ELSE LET rest == KeepLoop(Tail(items),
                              seenSet \cup {url_hash(Head(items)["url"])}, kept + 1)
              IN [rows |-> <<Head(items)>> \o rest.rows, seen |-> rest.seen]

\* one iteration of "for src in load_sources(...)": a source with no feed url or
\* with no entries is skipped; otherwise its items are sorted newest first and
\* the loop above appends the ones it keeps
ProcessSource(src, seenSet) ==
    IF ~src.hasFeed \/ src.entries = <<>> THEN [rows |-> <<>>, seen |-> seenSet]
    ELSE KeepLoop(SortDesc(ItemsOf(src, src.entries), "date"), seenSet, 0)

\* "write CSV (even if empty)": drop duplicate urls, sort by date, to_csv
RssTable(rs) ==
    to_csv(Frame(Cols, IF rs = <<>> THEN <<>>
                       ELSE SortDesc(DropDuplicates(rs, "url"), "date")))

\* the whole of main() as a function of the configuration
RECURSIVE IngestRows(_, _)
IngestRows(sources, seenSet) ==
    IF sources = <<>> THEN <<>>
    ELSE LET r == ProcessSource(Head(sources), seenSet)
         IN r.rows \o IngestRows(Tail(sources), r.seen)

IngestRss(sources) == RssTable(IngestRows(sources, {}))

RssIdle ==
    /\ cfg = <<>>
    /\ si = 0
    /\ rows = <<>>
    /\ seen = {}
    /\ keptBy = <<>>

\* one pass of the loop over the sources
RssSource ==
    /\ pc = "rss_loop"
    /\ si <= Len(cfg)
    /\ LET r == ProcessSource(cfg[si], seen)
       IN /\ rows' = rows \o r.rows
          /\ seen' = r.seen
          /\ keptBy' = Append(keptBy, r.rows)
    /\ si' = si + 1
    /\ UNCHANGED <<files, pc, loaded, pubVars, cfg, webVars>>

\* after the loop: write the table to --out
RssWrite ==
    /\ pc = "rss_loop"
    /\ si > Len(cfg)
    /\ files' = [files EXCEPT ![rss_csv] = RssTable(rows)]
    /\ pc' = "rss_done"
    /\ UNCHANGED <<loaded, pubVars, rssVars, webVars>>

(* The feeds of the model.  The entries of a feed are numbered 1..n; entry i  *)
(* links to "<base><ii>" and is published at "<rank>Z", where the ranks rise  *)
(* ("asc", oldest entry first) or fall ("desc") along the feed.  One entry,   *)
(* the second, may be special: its link is the first entry's link in upper    *)
(* case or padded with blanks, or is missing, or its date is missing.         *)

Layouts == {"asc", "desc"}

Specials == {"none", "upper", "padded", "nolink", "nodate"}

Bases == {"u", "w"}

UpperOf(b) == IF b = "u" THEN "U" ELSE "W"

EntryOf(base, n, lay, sp, i) ==
    LET rank == IF lay = "asc" THEN i ELSE n + 1 - i
        plain == <<base>> \o Dec(i)
    IN [link |-> IF i # 2 \/ sp \in {"none", "nodate"} THEN plain
                 ELSE IF sp = "upper" THEN <<UpperOf(base)>> \o Dec(1)
                 ELSE IF sp = "padded" THEN <<Space, base>> \o Dec(1) \o <<Space>>
                 ELSE Empty,
        published |-> IF i = 2 /\ sp = "nodate" THEN Empty ELSE Dec(rank) \o <<"Z">>]

FeedSource(k, base, n, lay, sp) ==
    [name |-> <<"s">> \o Dec(k), language |-> <<"x">>, hasFeed |-> TRUE,
     entries |-> [i \in 1..n |-> EntryOf(base, n, lay, sp, i)]]

NoFeedSource(k) ==
    [name |-> <<"s">> \o Dec(k), language |-> <<"x">>, hasFeed |-> FALSE, entries |-> <<>>]

\* what describes one source of the model: no feed, or a feed of the family
SourceParams ==
    {[feed |-> FALSE, base |-> "u", n |-> 0, lay |-> "asc", sp |-> "none"]}
    \cup [feed : {TRUE}, base : Bases, n : {2, 3, MaxEntries}, lay : Layouts, sp : Specials]

SourceAt(k, q) ==
    IF q.feed THEN FeedSource(k, q.base, q.n, q.lay, q.sp) ELSE NoFeedSource(k)

\* the configurations: up to MaxSources sources; the first has base "u", and
\* only the first has three entries, a padded link, a missing link or a
\* missing date
ConfigParams ==
    UNION {{c \in [1..k -> SourceParams] :
               \A j \in 1..k : IF j = 1 THEN c[j].base = "u"
                                ELSE c[j].sp \in {"none", "upper"} /\ c[j].n # 3} :
              k \in 0..MaxSources}

ConfigOf(c) == [k \in 1..Len(c) |-> SourceAt(k, c[k])]

InitRss ==
    /\ \E c \in ConfigParams : cfg = ConfigOf(c)
    /\ si = 1
    /\ rows = <<>>
    /\ seen = {}
    /\ keptBy = <<>>
    /\ pc = "rss_loop"
    /\ files = [n \in FileNames |-> Absent]
    /\ loaded = NotLoaded
    /\ args = NoArgs
    /\ frames = <<>>
    /\ pages = <<>>
    /\ html_before = {}
    /\ before = [n \in FileNames |-> FALSE]
    /\ failed = FALSE
    /\ writers = [n \in FileNames |-> {}]
    /\ rc = 0
    /\ ended = <<>>
    /\ steps = <<>>
    /\ WebIdle

NextRss == RssSource \/ RssWrite

SpecRss == InitRss /\ [][NextRss]_vars

----------------------------------------------------------------------------
(* scripts/extract_content.py *)

\* pages in data/interim/seed
MaxPages == 2

\* pick_best_block: the first record in descending (p_count, length) order,
\* records of equal key in file order
BlockGt(a, b) ==
    \/ a.p_count > b.p_count
    \/ a.p_count = b.p_count /\ a.length > b.length

\* a variant that takes the first record of the file
PickFirstRecord(records) == records[1]

pick_best_block(records) ==
    records[CHOOSE i \in 1..Len(records) :
                /\ \A j \in 1..Len(records) : ~BlockGt(records[j], records[i])
                /\ \A j \in 1..(i - 1) : BlockGt(records[i], records[j])]

\* s.split(ch)[0]: the text before the first ch
SplitHead(s, ch) ==
    LET at == {i \in 1..Len(s) : s[i] = ch}
    IN IF at = {} THEN s
       ELSE SubSeq(s, 1, (CHOOSE i \in at : \A j \in at : i <= j) - 1)

\* s[:n]
Take(s, n) == SubSeq(s, 1, IF Len(s) < n THEN Len(s) ELSE n)

TITLE_CAP == 140

BODY_CAP == 2000

\* the row main() builds of one page: title from the title guess or the first
\* sentence, body capped, source the host of the sidecar url, date from the
\* html or the Last-Modified header; the language is a keyword match on the
\* host, which none of the model's hosts matches
ExtractRow(pg) ==
    LET best == pick_best_block(pg.records)
    IN [c \in Cols |->
           IF c = "title"
           THEN (IF pg.title_guess # Empty THEN pg.title_guess
                 ELSE Strip(Take(SplitHead(best.text, "."), TITLE_CAP)))
           ELSE IF c = "body" THEN Take(best.text, BODY_CAP)
           ELSE IF c = "language" THEN <<"E", "n", "g", "l", "i", "s", "h">>
           ELSE IF c = "date"
                THEN (IF pg.html_date # Empty THEN pg.html_date ELSE pg.last_modified)
           ELSE IF c = "source" THEN SplitHead(pg.url, "/")
           ELSE pg.url]

\* "for jf in sorted(interim_dir.glob(...)): ... if not best: continue; rows.append"
RECURSIVE ExtractRows(_)
ExtractRows(ps) ==
    IF ps = <<>> THEN <<>>
    ELSE (IF Head(ps).records = <<>> THEN <<>> ELSE <<ExtractRow(Head(ps))>>)
         \o ExtractRows(Tail(ps))

\* "write CSV": csv.writer writes the header and the rows as they are
ExtractTable(ps) == CsvFile(Cols, ExtractRows(ps))

\* the pages of the model: a page of the site u01 with one block, dated in its
\* html or only by its Last-Modified header, and a page with no block at all
PageKinds ==
    {[records |-> <<[p_count |-> 1, length |-> 1, text |-> <<"x">>]>>, title_guess |-> <<"x">>,
      url |-> <<"u", "0", "1">>, html_date |-> Dec(3), last_modified |-> Dec(1)],
     [records |-> <<[p_count |-> 1, length |-> 1, text |-> <<"x">>]>>, title_guess |-> Empty,
      url |-> <<"u", "0", "1">>, html_date |-> Empty, last_modified |-> Dec(1)],
     [records |-> <<>>, title_guess |-> Empty,
      url |-> <<"u", "0", "2">>, html_date |-> Empty, last_modified |-> Empty]}

PageLists == UNION {[1..k -> PageKinds] : k \in 0..MaxPages}

----------------------------------------------------------------------------
(* scripts/publish.py: main *)

ArgSets == [with_html : BOOLEAN, skip_rss : BOOLEAN, merge_only : BOOLEAN]

\* the configurations ingest_rss.py runs on in the pipeline
PubConfigs == {<<>>, <<FeedSource(1, "u", 2, "asc", "none")>>}

Wrote(n, stage) == writers' = [writers EXCEPT ![n] = @ \cup {stage}]

\* a variant of AfterRss that goes from the RSS step straight to the merge
AfterRssToMerge == "merge"

AfterRss == IF args.with_html /\ ~args.merge_only THEN "html_ingest" ELSE "merge"

\* the exit codes of a step that fails
ExitCodes == {1, 2}

\* run_step(cmd): the step ran to its end (proc.wait()) and returned code
run_step(stage, code) == steps' = Append(steps, <<stage, code>>)

\* "if not args.skip_rss and not args.merge_only" is false: no RSS step
RssSkipped ==
    /\ pc = "rss"
    /\ args.skip_rss \/ args.merge_only
    /\ pc' = AfterRss
    /\ UNCHANGED <<files, loaded, args, frames, pages, html_before, before, ended, steps, failed, writers,
                   rc, rssVars, webVars>>

\* ingest_rss.py ran to its end and wrote --out
RssOk ==
    /\ pc = "rss"
    /\ ~(args.skip_rss \/ args.merge_only)
    /\ \E c \in PubConfigs : files' = [files EXCEPT ![rss_csv] = IngestRss(c)]
    /\ Wrote(rss_csv, "ingest_rss")
    /\ run_step("ingest_rss", 0)
    /\ pc' = AfterRss
    /\ UNCHANGED <<loaded, args, frames, pages, html_before, before, ended, failed, rc, rssVars, webVars>>

\* ingest_rss.py exited non-zero before it wrote (e.g. the config is unreadable);
\* publish.py prints the code and goes on
RssFail ==
    /\ pc = "rss"
    /\ ~(args.skip_rss \/ args.merge_only)
    /\ failed' = TRUE
    /\ \E code \in ExitCodes : run_step("ingest_rss", code)
    /\ pc' = AfterRss
    /\ UNCHANGED <<files, loaded, args, frames, pages, html_before, before, ended, writers, rc,
                   rssVars, webVars>>

\* ingest_rss.py was interrupted while df.to_csv(args.out) was writing
RssTorn ==
    /\ pc = "rss"
    /\ ~(args.skip_rss \/ args.merge_only)
    /\ \E c \in PubConfigs : \E t \in TornWrites(IngestRss(c)) :
           files' = [files EXCEPT ![rss_csv] = t]
    /\ Wrote(rss_csv, "ingest_rss")
    /\ failed' = TRUE
    /\ \E code \in ExitCodes : run_step("ingest_rss", code)
    /\ pc' = AfterRss
    /\ UNCHANGED <<loaded, args, frames, pages, html_before, before, ended, rc, rssVars, webVars>>

\* ingest_urls.py: writes under data/raw/seed only; its exit code is printed
HtmlIngest ==
    /\ pc = "html_ingest"
    /\ \E code \in {0} \cup ExitCodes :
          /\ run_step("ingest_urls", code)
          /\ failed' = (failed \/ code # 0)
    /\ pc' = "preprocess"
    /\ UNCHANGED <<files, loaded, args, frames, pages, html_before, before, ended, writers, rc,
                   rssVars, webVars>>

\* preprocess_html.py rewrote data/interim/seed
PreprocessOk ==
    /\ pc = "preprocess"
    /\ pages' \in PageLists
    /\ run_step("preprocess_html", 0)
    /\ pc' = "extract"
    /\ UNCHANGED <<files, loaded, args, frames, html_before, before, ended, failed, writers, rc,
                   rssVars, webVars>>

\* "if rc != 0: sys.exit(rc)"
PreprocessFail ==
    /\ pc = "preprocess"
    /\ failed' = TRUE
    /\ \E code \in ExitCodes : run_step("preprocess_html", code) /\ rc' = code
    /\ pc' = "exit"
    /\ UNCHANGED <<files, loaded, args, frames, pages, html_before, before, ended, writers, rssVars, webVars>>

Present(fs) == {n \in FileNames : fs[n].kind = "csv"}

\* html_before is taken on the first attempt only
Attempt == IF pc = "extract" THEN Present(files) ELSE html_before

\* extract_content.py ran to its end: it has no --out option and writes
\* data/processed/latest/articles.csv
ExtractOk ==
    /\ pc \in {"extract", "fallback"}
    /\ html_before' = Attempt
    /\ files' = [files EXCEPT ![final_csv] = ExtractTable(pages)]
    /\ Wrote(final_csv, "extract")
    /\ run_step("extract_content", 0)
    /\ pc' = "handoff"
    /\ UNCHANGED <<loaded, args, frames, pages, before, ended, failed, rc, rssVars, webVars>>

\* extract_content.py exited non-zero before it wrote; the second failure
\* ends the run ("sys.exit(rc2)")
ExtractFail ==
    /\ pc \in {"extract", "fallback"}
    /\ html_before' = Attempt
    /\ failed' = TRUE
    /\ \E code \in ExitCodes :
          /\ run_step("extract_content", code)
          /\ IF pc = "extract" THEN pc' = "fallback" /\ rc' = rc
             ELSE pc' = "exit" /\ rc' = code
    /\ UNCHANGED <<files, loaded, args, frames, pages, before, ended, writers, rssVars, webVars>>

\* extract_content.py was interrupted while it wrote articles.csv
ExtractTorn ==
    /\ pc \in {"extract", "fallback"}
    /\ html_before' = Attempt
    /\ \E t \in TornWrites(ExtractTable(pages)) :
           files' = [files EXCEPT ![final_csv] = t]
    /\ Wrote(final_csv, "extract")
    /\ failed' = TRUE
    /\ \E code \in ExitCodes :
          /\ run_step("extract_content", code)
          /\ IF pc = "extract" THEN pc' = "fallback" /\ rc' = rc
             ELSE pc' = "exit" /\ rc' = code
    /\ UNCHANGED <<loaded, args, frames, pages, before, ended, rssVars, webVars>>

\* "produced = ...": articles_html.csv if it exists; else a csv that is new
\* since html_before (only articles.csv can be) is renamed to it
Handoff ==
    /\ pc = "handoff"
    /\ IF files[html_csv].kind # "csv" /\ final_csv \notin html_before
       THEN /\ files' = [files EXCEPT ![html_csv] = files[final_csv],
                                       ![final_csv] = Absent]
            /\ Wrote(html_csv, "handoff")
       ELSE UNCHANGED <<files, writers>>
    /\ pc' = "merge"
    /\ UNCHANGED <<loaded, args, frames, pages, html_before, before, ended, steps, failed, rc, rssVars, webVars>>

\* the tables an earlier run can have left in data/processed/latest
PriorRss == {Absent, IngestRss(<<FeedSource(1, "u", 2, "desc", "none")>>)}

PriorHtml == {Absent, ExtractTable(<<CHOOSE pg \in PageKinds : pg.html_date # Empty>>)}

PriorFinal ==
    {Absent} \cup
    {to_csv(Merge(<<read_csv(r), read_csv(h)>>)) : r \in PriorRss \ {Absent},
                                                    h \in PriorHtml \ {Absent}}

InitPublish ==
    /\ args \in ArgSets
    /\ files \in {f \in [FileNames -> PriorRss \cup PriorHtml \cup PriorFinal] :
                     /\ f[rss_csv] \in PriorRss
                     /\ f[html_csv] \in PriorHtml
                     /\ f[final_csv] \in PriorFinal}
    /\ pc = "rss"
    /\ frames = <<>>
    /\ loaded = NotLoaded
    /\ pages = <<>>
    /\ html_before = {}
    /\ before = [n \in FileNames |-> Whole(files[n])]
    /\ failed = FALSE
    /\ writers = [n \in FileNames |-> {}]
    /\ rc = 0
    /\ ended = <<>>
    /\ steps = <<>>
    /\ RssIdle
    /\ WebIdle

NextPublish ==
    \/ RssSkipped
    \/ RssOk
    \/ RssFail
    \/ RssTorn
    \/ HtmlIngest
    \/ PreprocessOk
    \/ PreprocessFail
    \/ ExtractOk
    \/ ExtractFail
    \/ ExtractTorn
    \/ Handoff
    \/ FinalMerge
    \/ FinalMergeTorn

SpecPublish == InitPublish /\ [][NextPublish]_vars

----------------------------------------------------------------------------
(* SpecMerge: the final merge and the loader over bounded input tables *)

MergeUrls == {<<"a">>, <<"A">>, <<" ", "a">>}

MergeDates == {<<"1">>, <<"2">>}

\* the column sets of the input tables
Shapes == {Cols, Cols \ {"date"}, Cols \ {"url", "language"}}

MkRow(cols, u, d) ==
    [c \in cols |-> IF c = "url" THEN u ELSE IF c = "date" THEN d ELSE <<"x">>]

\* the tables of n rows
Tables(n) ==
    {CsvFile(sh, [i \in 1..n |-> MkRow(sh, ks[i][1], ks[i][2])]) :
        sh \in Shapes, ks \in [1..n -> MergeUrls \X MergeDates]}

InputFiles(n) == {Absent} \cup UNION {Tables(k) : k \in 0..n}

InitMerge ==
    /\ \E n1 \in 0..MaxRows :
         \E t1 \in InputFiles(n1), t2 \in InputFiles(MaxRows - n1) :
            files = [n \in FileNames |->
                        IF n = rss_csv THEN t1 ELSE IF n = html_csv THEN t2 ELSE Absent]
    /\ pc = "merge"
    /\ args = NoArgs
    /\ frames = <<>>
    /\ loaded = NotLoaded
    /\ pages = <<>>
    /\ html_before = {}
    /\ before = [n \in FileNames |-> Whole(files[n])]
    /\ failed = FALSE
    /\ writers = [n \in FileNames |-> {}]
    /\ rc = 0
    /\ ended = <<>>
    /\ steps = <<>>
    /\ RssIdle
    /\ WebIdle

NextMerge == FinalMerge \/ LoadArticles

SpecMerge == InitMerge /\ [][NextMerge]_vars

\* SpecRerun: publish.py --merge-only run again and again on the same inputs
NextRerun == FinalMerge \/ MergeAgain

SpecRerun == InitMerge /\ [][NextRerun]_vars

----------------------------------------------------------------------------
(* scripts/ingest_urls.py *)

\* the longest configuration of ingest_urls.py
MaxUrlSources == 3

StartsWith(s, p) == Len(s) >= Len(p) /\ SubSeq(s, 1, Len(p)) = p

\* the text after the first "://" of s
RECURSIVE AfterScheme(_)
AfterScheme(s) ==
    IF Len(s) < 3 THEN <<>>
    ELSE IF SubSeq(s, 1, 3) = <<":", "/", "/">> THEN SubSeq(s, 4, Len(s))
    ELSE AfterScheme(Tail(s))

\* urlparse(url).netloc
Netloc(url) == SplitHead(AfterScheme(url), "/")

\* safe_filename(url): netloc with ":" replaced, or "unknown", plus ".html"
safe_filename(url) ==
    LET host == [i \in 1..Len(Netloc(url)) |->
                    IF Netloc(url)[i] = ":" THEN "_" ELSE Netloc(url)[i]]
    IN (IF host = <<>> THEN <<"u", "n", "k", "n", "o", "w", "n">> ELSE host)
          \o <<".", "h", "t", "m", "l">>

ManifestHeader ==
    {"name", "url", "language", "group", "status", "http_status", "path",
     "timestamp", "final_url"}

Statuses == {"ok", "error", "blocked_by_robots", "skip_invalid_url"}

\* a variant of write_manifest_row that opens the manifest with mode "w"
WriteManifestRowTruncating(man, row) ==
    [exists |-> TRUE,
     rows |-> <<[k \in ManifestHeader |-> IF k \in DOMAIN row THEN row[k] ELSE Empty]>>]

\* write_manifest_row(man_csv, row): append one row (after the header, which
\* a file that exists already holds)
write_manifest_row(man, row) ==
    [exists |-> TRUE,
     rows |-> Append(man.rows,
                     [k \in ManifestHeader |-> IF k \in DOMAIN row THEN row[k] ELSE Empty])]

(* What the lookup of robots.txt can meet (urllib.robotparser, read() then    *)
(* can_fetch()):                                                            *)
(*   allow        the file is read and its rules permit the url             *)
(*   disallow     the file is read and its rules forbid the url             *)
(*   forbidden    HTTP 401 or 403: read() sets disallow_all                 *)
(*   missing      another 4xx status, such as 404: read() sets allow_all    *)
(*   server_error another HTTP error status: read() sets nothing, and       *)
(*                can_fetch() is False for a file never read                *)
(*   unreachable  no HTTP answer (or a url that cannot be opened): read()   *)
(*                raises                                                    *)
(* The request of the page returns a response or raises a RequestException. *)
RobotsAnswers ==
    {"allow", "disallow", "forbidden", "missing", "server_error", "unreachable"}

\* the lookups read() or can_fetch() pass on as an exception
Raising == {"unreachable"}

\* rp.read(); rp.can_fetch(user_agent, url), when read() has returned
can_fetch(answer) == answer \in {"allow", "missing"}

\* a variant of robots_allows that lets a lookup that raised pass
RobotsAllowsFailOpen(answer, ignore) ==
    ignore \/ answer \in Raising \/ can_fetch(answer)

Redirected == <<"h", "t", "t", "p", ":", "/", "/", "r">>

Responses(url) ==
    {[raised |-> FALSE, status_code |-> <<"2", "0", "0">>, url |-> url],
     [raised |-> FALSE, status_code |-> <<"2", "0", "0">>, url |-> Redirected],
     [raised |-> FALSE, status_code |-> <<"4", "0", "4">>, url |-> url],
     [raised |-> TRUE, status_code |-> Empty, url |-> Empty]}

\* robots_allows(url, ignore=...): an exception of the lookup means "disallow"
robots_allows(answer, ignore) ==
    ignore \/ (answer \notin Raising /\ can_fetch(answer))

\* row.update({...}) keeps the keys of row that upd does not set
Update(row, upd) ==
    [k \in DOMAIN row \cup DOMAIN upd |-> IF k \in DOMAIN upd THEN upd[k] ELSE row[k]]

NotFetched(status) ==
    [status |-> status, http_status |-> Empty, path |-> Empty, final_url |-> Empty]

\* the body of the loop for source s: the manifest row it writes, the
\* artifacts it writes and whether it looked up robots.txt / requested the url
FetchOne(s, ignore, answer, resp) ==
    LET url == Strip(s.url)
        name == IF Strip(s.name) # <<>> THEN Strip(s.name) ELSE url
        row == [name |-> name, url |-> url, language |-> s.language,
                group |-> s.group, timestamp |-> <<"t", "s">>]
        out_path == safe_filename(url)
        none == [artifacts |-> {}, lookup |-> FALSE, request |-> FALSE]
    IN IF ~StartsWith(url, <<"h", "t", "t", "p">>)
       THEN none @@ [row |-> Update(row, NotFetched("skip_invalid_url"))]
       ELSE IF ~robots_allows(answer, ignore)
       THEN [row |-> Update(row, NotFetched("blocked_by_robots")),
             artifacts |-> {}, lookup |-> TRUE, request |-> FALSE]
       ELSE IF resp.raised
       THEN [row |-> Update(row, NotFetched("error")),
             artifacts |-> {}, lookup |-> ~ignore, request |-> TRUE]
       ELSE [row |-> Update(row, [status |-> "ok", http_status |-> resp.status_code,
                                  path |-> out_path, final_url |-> resp.url]),
             artifacts |-> {out_path, out_path \o <<".", "m", "e", "t", "a", ".", "j", "s", "o", "n">>},
             lookup |-> ~ignore, request |-> TRUE]

\* one pass of the loop over the sources
FetchSource ==
    /\ pc = "fetch_loop"
    /\ fetchIdx <= Len(urlSources)
    /\ \E answer \in RobotsAnswers, resp \in Responses(Strip(urlSources[fetchIdx].url)) :
          LET r == FetchOne(urlSources[fetchIdx], ignore_robots, answer, resp)
          IN /\ manifest' = write_manifest_row(manifest, r.row)
             /\ raw' = raw \cup r.artifacts
             /\ lookups' = IF r.lookup THEN lookups \cup {<<fetchIdx, answer>>}
                                        ELSE lookups
             /\ requested' = IF r.request THEN requested \cup {fetchIdx} ELSE requested
    /\ fetchIdx' = fetchIdx + 1
    /\ UNCHANGED <<files, pc, loaded, pubVars, rssVars, urlSources, ignore_robots,
                   manifest0, queryVars, html>>

\* after the loop: "Done. See manifest"
FetchDone ==
    /\ pc = "fetch_loop"
    /\ fetchIdx > Len(urlSources)
    /\ pc' = "fetch_done"
    /\ UNCHANGED <<files, loaded, pubVars, rssVars, webVars>>

(* The configurations of the model: sources whose url is valid, valid once   *)
(* stripped, not starting with "http", or empty; the name may be missing.    *)
UrlSourcePool ==
    {[name |-> <<"n">>, url |-> <<"h", "t", "t", "p", ":", "/", "/", "a">>,
      language |-> <<"E">>, group |-> Empty],
     [name |-> Empty, url |-> <<" ", "h", "t", "t", "p", ":", "/", "/", "a", "/", "x">>,
      language |-> <<"E">>, group |-> Empty],
     [name |-> <<"n">>, url |-> <<"f", "t", "p", ":", "/", "/", "a">>,
      language |-> Empty, group |-> Empty],
     [name |-> <<"n">>, url |-> Empty, language |-> Empty, group |-> Empty]}

\* a configuration lists each source once, in any order
UrlConfigs ==
    {c \in UNION {[1..k -> UrlSourcePool] : k \in 0..MaxUrlSources} :
        \A i, j \in DOMAIN c : c[i] = c[j] => i = j}

\* the manifest an earlier run left: none, or the two rows of an earlier run
PriorManifests ==
    {[exists |-> FALSE, rows |-> <<>>],
     write_manifest_row(
        write_manifest_row([exists |-> FALSE, rows |-> <<>>],
            FetchOne(CHOOSE s \in UrlSourcePool : s.url = Empty, FALSE, "allow",
                     [raised |-> TRUE]).row),
        FetchOne(CHOOSE s \in UrlSourcePool : s.name = Empty, FALSE, "allow",
                 [raised |-> FALSE, status_code |-> <<"2", "0", "0">>,
                  url |-> Redirected]).row)}

InitFetch ==
    /\ urlSources \in UrlConfigs
    /\ ignore_robots \in BOOLEAN
    /\ fetchIdx = 1
    /\ manifest \in PriorManifests
    /\ raw = {}
    /\ manifest0 = manifest
    /\ lookups = {}
    /\ requested = {}
    /\ pc = "fetch_loop"
    /\ files = [n \in FileNames |-> Absent]
    /\ loaded = NotLoaded
    /\ args = NoArgs
    /\ frames = <<>>
    /\ pages = <<>>
    /\ html_before = {}
    /\ before = [n \in FileNames |-> FALSE]
    /\ failed = FALSE
    /\ writers = [n \in FileNames |-> {}]
    /\ rc = 0
    /\ ended = <<>>
    /\ steps = <<>>
    /\ RssIdle
    /\ QueryIdle
    /\ HtmlIdle

NextFetch == FetchSource \/ FetchDone

SpecFetch == InitFetch /\ [][NextFetch]_vars

----------------------------------------------------------------------------
(* app.py: apply_date_filter *)

\* the most rows of the frame handed to the filter
MaxQRows == 2

(* An instant is [day, sec]: the proleptic Gregorian ordinal of its UTC day   *)
(* (0001-01-01 is day 1) and the second of that day.  The text of a date cell *)
(* is given by what pandas reads in it: [kind, day, sec, off], where kind is  *)
(* "empty", "blank" (white space only), "nan" (str of a missing value),       *)
(* "text" (no date in it) or "iso" (the local day and second, and the offset  *)
(* of the local time from UTC in seconds).                                    *)
SecondsPerDay == 86400

\* date.min.toordinal(): the first day a datetime can hold
MinOrdinal == 1

\* timedelta.max.days: timedelta(days=n) raises OverflowError beyond it
MaxTimedeltaDays == 999999999

\* the ordinal of 2024-01-dd
Jan2024(dd) == 738885 + dd

NaT == [kind |-> "NaT", day |-> 0, sec |-> 0]

Instant(day, sec) == [kind |-> "instant", day |-> day, sec |-> sec]

\* str.isdigit() over the digits 0..9
IsDigits(s) == s # <<>> /\ \A i \in 1..Len(s) : \E d \in 1..10 : DigitChars[d] = s[i]

DigitVal(c) == (CHOOSE d \in 1..10 : DigitChars[d] = c) - 1

\* int(s) of a string of digits
RECURSIVE ToInt(_)
ToInt(s) ==
    IF s = <<>> THEN 0
    ELSE ToInt(SubSeq(s, 1, Len(s) - 1)) * 10 + DigitVal(s[Len(s)])

\* date_key[:-1]
Front(s) == SubSeq(s, 1, Len(s) - 1)

\* the start of the window of a non-empty date_key: an instant, "all" when the
\* key is not recognised (return df), "raised" when computing it raises
WindowStart(key, nw) ==
    IF key = <<"t", "o", "d", "a", "y">>
    THEN Instant(nw.day, 0)
    ELSE IF key[Len(key)] = "d" /\ IsDigits(Front(key))
    THEN LET n == ToInt(Front(key))
         IN IF n > MaxTimedeltaDays \/ nw.day - n < MinOrdinal
            THEN [kind |-> "raised", day |-> 0, sec |-> 0]
            ELSE Instant(nw.day - n, nw.sec)
    ELSE [kind |-> "all", day |-> 0, sec |-> 0]

\* str(d).strip()
StripDate(d) == IF d.kind = "blank" THEN [d EXCEPT !.kind = "empty"] ELSE d

\* pd.to_datetime(s, errors="coerce", utc=True): the instant in UTC, or NaT
to_datetime(d) ==
    IF d.kind # "iso" THEN NaT
    ELSE LET s == d.sec - d.off
         IN IF s < 0 THEN Instant(d.day - 1, s + SecondsPerDay)
            ELSE IF s >= SecondsPerDay THEN Instant(d.day + 1, s - SecondsPerDay)
            ELSE Instant(d.day, s)

\* a variant of the comparison that leaves out the start of the window
StrictlyAfter(dt, start) ==
    dt.day > start.day \/ (dt.day = start.day /\ dt.sec > start.sec)

\* dt >= start
AtOrAfter(dt, start) ==
    dt.day > start.day \/ (dt.day = start.day /\ dt.sec >= start.sec)

\* _ok(d) of apply_date_filter
DateOk(d, start) ==
    LET s == StripDate(d)
    IN IF s.kind = "empty" THEN FALSE
       ELSE IF to_datetime(s) = NaT THEN FALSE
       ELSE AtOrAfter(to_datetime(s), start)

\* apply_date_filter(df, date_key); the frame always has a date column
apply_date_filter(d, key, nw) ==
    IF d # <<>> /\ key # <<>>
    THEN LET start == WindowStart(key, nw)
         IN IF start.kind = "instant"
            THEN SelectSeq(d, LAMBDA r : DateOk(r["date"], start))
            ELSE d
    ELSE d

\* serving one request: the filter is applied to the loaded frame
ApplyDateFilter ==
    /\ pc = "query"
    /\ qout' = apply_date_filter(qdf, date_key, now)
    /\ pc' = "filtered"
    /\ UNCHANGED <<files, loaded, pubVars, rssVars, fetchVars, qdf, date_key, now, top, data,
                   html>>

DateText(kind, day, sec, off) == [kind |-> kind, day |-> day, sec |-> sec, off |-> off]

\* the date cells of the model: "", "  ", "nan", "soon", 2024-01-02T23:59:59Z,
\* 2024-01-03T00:00:00Z, 2024-01-03T00:00:01Z, 2024-01-03T01:00:00+02:00 and
\* 2024-01-10T00:00:10Z
QueryDates ==
    {DateText("empty", 0, 0, 0), DateText("blank", 0, 0, 0), DateText("nan", 0, 0, 0),
     DateText("text", 0, 0, 0),
     DateText("iso", Jan2024(2), 86399, 0), DateText("iso", Jan2024(3), 0, 0),
     DateText("iso", Jan2024(3), 1, 0), DateText("iso", Jan2024(3), 3600, 7200),
     DateText("iso", Jan2024(10), 10, 0)}

\* the date keys of the model; with now on 2024-01-10, 738894 days back is
\* 0001-01-01 and 738895 days back is before the first day of a datetime
DateKeys ==
    {<<>>, <<"t", "o", "d", "a", "y">>, <<"0", "d">>, <<"7", "d">>, <<"d">>, <<"7">>,
     <<"7", "3", "8", "8", "9", "4", "d">>, <<"7", "3", "8", "8", "9", "5", "d">>,
     <<"1", "0", "0", "0", "0", "0", "0", "0", "0", "0", "d">>}

\* 2024-01-10T00:00:00Z and 2024-01-10T00:00:30Z
Nows == {[day |-> Jan2024(10), sec |-> 0], [day |-> Jan2024(10), sec |-> 30]}

QueryFrames ==
    UNION {{[i \in 1..k |-> MkRow(Cols, Dec(i), ds[i])] : ds \in [1..k -> QueryDates]} :
              k \in 0..MaxQRows}

InitQuery ==
    /\ qdf \in QueryFrames
    /\ date_key \in DateKeys
    /\ now \in Nows
    /\ qout = <<>>
    /\ top = 15
    /\ data = <<>>
    /\ pc = "query"
    /\ files = [n \in FileNames |-> Absent]
    /\ loaded = NotLoaded
    /\ args = NoArgs
    /\ frames = <<>>
    /\ pages = <<>>
    /\ html_before = {}
    /\ before = [n \in FileNames |-> FALSE]
    /\ failed = FALSE
    /\ writers = [n \in FileNames |-> {}]
    /\ rc = 0
    /\ ended = <<>>
    /\ steps = <<>>
    /\ RssIdle
    /\ FetchIdle
    /\ HtmlIdle

NextQuery == ApplyDateFilter

SpecQuery == InitQuery /\ [][NextQuery]_vars

----------------------------------------------------------------------------
(* app.py: the metrics endpoints *)

\* the most rows of the frame the metrics endpoints load
MaxMRows == 3

\* the indexes at which the series val holds v
Occurrences(val, v) == {i \in DOMAIN val : val[i] = v}

\* Series.value_counts(): the values that are not missing, with the number of
\* rows holding each; the missing value na (NaN, NaT) is dropped
value_counts(val, na) ==
    LET present == {val[i] : i \in DOMAIN val} \ {na}
    IN [v \in present |-> Cardinality(Occurrences(val, v))]

\* the orders of the keys of counts
Orderings(counts) ==
    {o \in [1..Cardinality(DOMAIN counts) -> DOMAIN counts] :
        \A i, j \in DOMAIN o : i # j => o[i] # o[j]}

\* value_counts() sorts by count, the largest first; the order among equal
\* counts is whatever the sort leaves
ByCountDesc(counts) ==
    {o \in Orderings(counts) :
        \A i, j \in DOMAIN o : i < j => counts[o[i]] >= counts[o[j]]}

\* .sort_index(): by the value itself, ascending (here: the day)
ByIndexAsc(counts) ==
    CHOOSE o \in Orderings(counts) : \A i, j \in DOMAIN o : i < j => o[i] < o[j]

\* NaT as a calendar day: no day has ordinal 0
NaTDay == 0

\* _as_date(d): the UTC calendar day of the date, NaT when there is none
as_date(d) == IF to_datetime(d) = NaT THEN NaTDay ELSE to_datetime(d).day

Unknown == <<"U", "n", "k", "n", "o", "w", "n">>

\* a variant that replaces "" only and leaves missing values missing
LabelOfEmptyOnly(v) == IF v = Empty THEN Unknown ELSE v

\* .fillna("").replace("", "Unknown")
LabelOf(v) == IF v = NaN \/ v = Empty THEN Unknown ELSE v

\* the points of api_metrics_volume over the filtered frame d
VolumePoints(d) ==
    IF d = <<>> THEN <<>>
    ELSE LET g == value_counts([i \in 1..Len(d) |-> as_date(d[i]["date"])], NaTDay)
             o == ByIndexAsc(g)
         IN [i \in DOMAIN o |-> [date |-> o[i], count |-> g[o[i]]]]

\* the lists api_metrics_languages / api_metrics_sources may return for
\* column c of the filtered frame d, cut to the first n
LabelCounts(d, c, n) ==
    IF d = <<>> THEN {<<>>}
    ELSE LET vc == value_counts([i \in 1..Len(d) |-> LabelOf(d[i][c])], NaN)
         IN {[i \in 1..(IF Len(o) < n THEN Len(o) ELSE n) |->
                 [label |-> o[i], count |-> vc[o[i]]]] : o \in ByCountDesc(vc)}

\* top_n = max(1, int(top))
top_n == IF top < 1 THEN 1 ELSE top

\* GET /api/metrics/volume
ApiMetricsVolume ==
    /\ pc = "query"
    /\ qout' = apply_date_filter(qdf, date_key, now)
    /\ data' = VolumePoints(qout')
    /\ pc' = "volume"
    /\ UNCHANGED <<files, loaded, pubVars, rssVars, fetchVars, qdf, date_key, now, top, html>>

\* GET /api/metrics/languages
ApiMetricsLanguages ==
    /\ pc = "query"
    /\ qout' = apply_date_filter(qdf, date_key, now)
    /\ data' \in LabelCounts(qout', "language", Len(qout'))
    /\ pc' = "languages"
    /\ UNCHANGED <<files, loaded, pubVars, rssVars, fetchVars, qdf, date_key, now, top, html>>

\* GET /api/metrics/sources?top=...
ApiMetricsSources ==
    /\ pc = "query"
    /\ qout' = apply_date_filter(qdf, date_key, now)
    /\ data' \in LabelCounts(qout', "source", top_n)
    /\ pc' = "sources"
    /\ UNCHANGED <<files, loaded, pubVars, rssVars, fetchVars, qdf, date_key, now, top, html>>

(* The rows of the model: dated 2024-01-03T00:00:01Z, 2024-01-03T01:00:00+02:00 *)
(* (the 2nd of January in UTC), 2024-01-02T23:59:59Z and 2024-01-10T00:00:10Z,  *)
(* or with an empty or unparsable date; the language and the source are text,   *)
(* empty or missing.                                                            *)
MetricRowKinds ==
    {[date |-> DateText("iso", Jan2024(3), 1, 0), language |-> <<"E">>, source |-> <<"a">>],
     [date |-> DateText("iso", Jan2024(3), 3600, 7200), language |-> <<"E">>, source |-> <<"b">>],
     [date |-> DateText("iso", Jan2024(2), 86399, 0), language |-> <<"A">>, source |-> <<"b">>],
     [date |-> DateText("iso", Jan2024(10), 10, 0), language |-> <<"A">>, source |-> NaN],
     [date |-> DateText("empty", 0, 0, 0), language |-> NaN, source |-> Empty],
     [date |-> DateText("text", 0, 0, 0), language |-> Empty, source |-> <<"a">>],
     [date |-> DateText("nan", 0, 0, 0), language |-> <<"E">>, source |-> <<"c">>]}

MetricRow(i, k) ==
    [title |-> <<"x">>, body |-> <<"x">>, language |-> k.language, date |-> k.date,
     source |-> k.source, url |-> Dec(i)]

MetricFrames ==
    UNION {{[i \in 1..n |-> MetricRow(i, ks[i])] : ks \in [1..n -> MetricRowKinds]} :
              n \in 0..MaxMRows}

InitMetrics ==
    /\ qdf \in MetricFrames
    /\ date_key \in {<<>>, <<"7", "d">>}
    /\ now = [day |-> Jan2024(10), sec |-> 0]
    /\ qout = <<>>
    /\ top \in {0, 1, 2, 15}
    /\ data = <<>>
    /\ pc = "query"
    /\ files = [n \in FileNames |-> Absent]
    /\ loaded = NotLoaded
    /\ args = NoArgs
    /\ frames = <<>>
    /\ pages = <<>>
    /\ html_before = {}
    /\ before = [n \in FileNames |-> FALSE]
    /\ failed = FALSE
    /\ writers = [n \in FileNames |-> {}]
    /\ rc = 0
    /\ ended = <<>>
    /\ steps = <<>>
    /\ RssIdle
    /\ FetchIdle
    /\ HtmlIdle

NextMetrics == ApiMetricsVolume \/ ApiMetricsLanguages \/ ApiMetricsSources

SpecMetrics == InitMetrics /\ [][NextMetrics]_vars

----------------------------------------------------------------------------
(* scripts/preprocess_html.py, and extract_content.py run on its output *)

\* the longest list of candidate blocks drawn freely from the pool
MaxBlocks == 3

\* blocks = sorted(...)[:10]
BLOCK_LIMIT == 10

\* "text": text[:20000]
TEXT_CAP == 20000

\* a variant of the insertion that puts b before the blocks of equal key
InsertBlockBeforeEqual(b, s) ==
    LET before_b == {i \in 1..Len(s) : BlockGt(s[i], b)}
        n == Cardinality(before_b)
    IN IF \A i \in before_b : \A j \in 1..i : j \in before_b
       THEN SubSeq(s, 1, n) \o <<b>> \o SubSeq(s, n + 1, Len(s))
       ELSE s

\* b put into the descending list s after every block that is not smaller
RECURSIVE InsertBlock(_, _)
InsertBlock(b, s) ==
    IF s = <<>> THEN <<b>>
    ELSE IF BlockGt(b, Head(s)) THEN <<b>> \o s
    ELSE <<Head(s)>> \o InsertBlock(b, Tail(s))

\* sorted(blocks, key=(p_count, length), reverse=True): descending and stable,
\* blocks of equal key stay in the order of the scan
RECURSIVE SortBlocks(_)
SortBlocks(bs) ==
    IF bs = <<>> THEN <<>>
    ELSE InsertBlock(bs[Len(bs)], SortBlocks(SubSeq(bs, 1, Len(bs) - 1)))

\* the candidate iter_candidate_blocks yields for an element matched by
\* selector sel with p paragraphs whose clean text is n times the character ch
Candidate(sel, p, n, ch) ==
    [selector |-> sel, length |-> n, p_count |-> p,
     text |-> [i \in 1..(IF n < TEXT_CAP THEN n ELSE TEXT_CAP) |-> ch]]

\* preprocess_one: the jsonl page of one html page
preprocess_one(h) ==
    [records |-> Take(SortBlocks(h.cands), BLOCK_LIMIT), title_guess |-> h.title_guess,
     url |-> h.url, html_date |-> h.html_date, last_modified |-> h.last_modified]

\* preprocess_html.py main(): one jsonl page per html page
PreprocessHtml ==
    /\ pc = "preprocess_html"
    /\ html # <<>>
    /\ pages' = [k \in 1..Len(html) |-> preprocess_one(html[k])]
    /\ pc' = "extract_content"
    /\ UNCHANGED <<files, loaded, args, frames, html_before, before, ended, steps, failed, writers, rc,
                   rssVars, webVars>>

\* preprocess_html.py main(): "No HTML files", sys.exit(0)
PreprocessNoHtml ==
    /\ pc = "preprocess_html"
    /\ html = <<>>
    /\ pc' = "extract_content"
    /\ UNCHANGED <<files, loaded, pubVars, rssVars, webVars>>

\* extract_content.py main(), run by hand: one row per page with a record
ExtractContent ==
    /\ pc = "extract_content"
    /\ files' = [files EXCEPT ![final_csv] = ExtractTable(pages)]
    /\ pc' = "extracted"
    /\ UNCHANGED <<loaded, pubVars, rssVars, webVars>>

(* The pages of the model.  The candidates of a page are up to MaxBlocks      *)
(* blocks of the pool, in any order of scan, or one of two long scans of more *)
(* than BLOCK_LIMIT blocks whose keys repeat.                                 *)
CandidatePool ==
    {Candidate("main", 3, 100, "x"), Candidate("div", 1, 500, "x"),
     Candidate("div", 3, 50, "x"), Candidate("div", 3, 100, "y"),
     Candidate("section", 3, BODY_CAP + 1, "x")}

LongScan(k) ==
    [i \in 1..(BLOCK_LIMIT + 2) |->
        Candidate("div", (i * k) % 3, 1 + (i % 2), DigitChars[(i % 10) + 1])]

Scans ==
    UNION {[1..n -> CandidatePool] : n \in 0..MaxBlocks} \cup {LongScan(1), LongScan(2)}

HtmlPage(cands, u) ==
    [cands |-> cands, title_guess |-> Empty, url |-> u, html_date |-> Empty,
     last_modified |-> Dec(1)]

\* one page, or a page after a page with no candidate or with one candidate
HtmlLists ==
    {<<>>}
       \cup {<<HtmlPage(c, <<"u", "0", "2">>)>> : c \in Scans}
       \cup {<<HtmlPage(c1, <<"u", "0", "1">>), HtmlPage(c, <<"u", "0", "2">>)>> :
                c1 \in {<<>>, <<Candidate("div", 1, 2, "a")>>}, c \in Scans}

\* the jsonl pages an earlier step left, whatever the order of their records
JsonlOf(h) ==
    [records |-> h.cands, title_guess |-> h.title_guess, url |-> h.url,
     html_date |-> h.html_date, last_modified |-> h.last_modified]

InitPage ==
    /\ \/ /\ pc = "preprocess_html"
          /\ html \in HtmlLists
          /\ pages = <<>>
       \/ /\ pc = "extract_content"
          /\ html = <<>>
          /\ \E hs \in HtmlLists \ {<<>>} :
                /\ \A k \in 1..Len(hs) : Len(hs[k].cands) <= BLOCK_LIMIT
                /\ pages = [k \in 1..Len(hs) |-> JsonlOf(hs[k])]
    /\ files = [n \in FileNames |-> Absent]
    /\ loaded = NotLoaded
    /\ args = NoArgs
    /\ frames = <<>>
    /\ html_before = {}
    /\ before = [n \in FileNames |-> FALSE]
    /\ failed = FALSE
    /\ writers = [n \in FileNames |-> {}]
    /\ rc = 0
    /\ ended = <<>>
    /\ steps = <<>>
    /\ RssIdle
    /\ FetchIdle
    /\ QueryIdle

NextPage == PreprocessHtml \/ PreprocessNoHtml \/ ExtractContent

SpecPage == InitPage /\ [][NextPage]_vars

----------------------------------------------------------------------------
(* Claims about the merge (SpecMerge) *)

\* the rows of a file as the merge can read them
DiskRows(f) == IF Readable(f) THEN f.rows ELSE <<>>

\* the rows the final merge read, articles_rss.csv first
MergeIn == DiskRows(files[rss_csv]) \o DiskRows(files[html_csv])

MergeOut == files[final_csv].rows

\* the cell of a row on disk; a column the file lacks reads as the empty field
Cell(row, c) == IF c \in DOMAIN row THEN row[c] ELSE Empty

Merged == pc = "done" /\ frames # <<>>

OutWith(u) == {j \in 1..Len(MergeOut) : MergeOut[j]["url"] = u}

InWith(u) == {i \in 1..Len(MergeIn) : Cell(MergeIn[i], "url") = u}

FirstIdx(u) == CHOOSE i \in InWith(u) : \A j \in InWith(u) : i <= j

Norm(u) == Lower(Strip(u))

\* C1 (as stated): of the input rows with one url and different dates the merge
\* keeps exactly one, the one whose date is greatest.
C1_MostRecentWins ==
    Merged =>
        \A i, j \in 1..Len(MergeIn) :
            (/\ Cell(MergeIn[i], "url") = Cell(MergeIn[j], "url")
             /\ Cell(MergeIn[i], "date") # Cell(MergeIn[j], "date"))
            => /\ Cardinality(OutWith(Cell(MergeIn[i], "url"))) = 1
               /\ \A k \in OutWith(Cell(MergeIn[i], "url")) :
                     \A m \in InWith(Cell(MergeIn[i], "url")) :
                        ~StrLess(MergeOut[k]["date"], Cell(MergeIn[m], "date"))

\* C1 (amended): of the input rows with one url the merge keeps exactly one,
\* the first in concatenation order (articles_rss.csv, then articles_html.csv),
\* whatever the dates: duplicates are dropped before the sort by date.
C1_FirstSeenWins ==
    Merged =>
        \A i \in 1..Len(MergeIn) :
            LET u == Cell(MergeIn[i], "url")
            IN /\ Cardinality(OutWith(u)) = 1
               /\ \A k \in OutWith(u) :
                     \A c \in Cols : MergeOut[k][c] = Cell(MergeIn[FirstIdx(u)], c)

\* C1 witness: an older row came first, a newer row of the same url later, and
\* the merged table holds the older one.
C1_Witness ==
    /\ Merged
    /\ \E i, j \in 1..Len(MergeIn) :
          /\ i < j
          /\ i = FirstIdx(Cell(MergeIn[i], "url"))
          /\ Cell(MergeIn[i], "url") = Cell(MergeIn[j], "url")
          /\ StrLess(Cell(MergeIn[i], "date"), Cell(MergeIn[j], "date"))
          /\ \E k \in OutWith(Cell(MergeIn[i], "url")) :
                MergeOut[k]["date"] = Cell(MergeIn[i], "date")

\* C2 (as stated): of the input rows whose urls are equal after trimming and
\* lower-casing, with different dates, the merge keeps exactly one, the one whose
\* date is greatest.
C2_NormalizedMostRecentWins ==
    Merged =>
        \A i, j \in 1..Len(MergeIn) :
            (/\ Norm(Cell(MergeIn[i], "url")) = Norm(Cell(MergeIn[j], "url"))
             /\ Cell(MergeIn[i], "date") # Cell(MergeIn[j], "date"))
            => LET n == Norm(Cell(MergeIn[i], "url"))
                   kept == {k \in 1..Len(MergeOut) : Norm(MergeOut[k]["url"]) = n}
               IN /\ Cardinality(kept) = 1
                  /\ \A k \in kept :
                        \A m \in 1..Len(MergeIn) :
                            Norm(Cell(MergeIn[m], "url")) = n
                            => ~StrLess(MergeOut[k]["date"], Cell(MergeIn[m], "date"))

\* C2 (amended): the merge compares urls as exact strings: of the input rows
\* whose urls are equal after trimming and lower-casing it keeps one row for each
\* distinct exact url string among them, so rows that differ only in case or
\* surrounding whitespace are all kept.
C2_ExactUrlDedup ==
    Merged =>
        \A i \in 1..Len(MergeIn) :
            LET n == Norm(Cell(MergeIn[i], "url"))
                kept == {k \in 1..Len(MergeOut) : Norm(MergeOut[k]["url"]) = n}
                exact == {Cell(MergeIn[m], "url") :
                             m \in {x \in 1..Len(MergeIn) : Norm(Cell(MergeIn[x], "url")) = n}}
            IN /\ Cardinality(kept) = Cardinality(exact)
               /\ {MergeOut[k]["url"] : k \in kept} = exact

\* C2 witness: two rows whose urls differ only in case or whitespace, with
\* different dates, are both in the merged table.
C2_Witness ==
    /\ Merged
    /\ \E i, j \in 1..Len(MergeIn) :
          /\ Cell(MergeIn[i], "url") # Cell(MergeIn[j], "url")
          /\ Norm(Cell(MergeIn[i], "url")) = Norm(Cell(MergeIn[j], "url"))
          /\ Cell(MergeIn[i], "date") # Cell(MergeIn[j], "date")
          /\ OutWith(Cell(MergeIn[i], "url")) # {}
          /\ OutWith(Cell(MergeIn[j], "url")) # {}

\* the loaded row is the disk row r with the columns r lacks added as ""
LoadImageOf(row, r) ==
    /\ \A c \in Cols \ DOMAIN r : row[c] = Empty
    /\ \A c \in Cols \cap DOMAIN r : r[c] # Empty => row[c] = r[c]

\* C4: whatever columns the input tables lack, the merged table and the table
\* load_articles returns have exactly the six canonical columns, and a row that
\* came from a table lacking a column holds the empty string in that column.
C4_SchemaComplete ==
    /\ Merged =>
          /\ files[final_csv].cols = Cols
          /\ \A k \in 1..Len(MergeOut) : DOMAIN MergeOut[k] = Cols
          /\ \A i \in 1..Len(MergeIn) :
                \A k \in OutWith(Cell(MergeIn[i], "url")) :
                    \A c \in Cols \ DOMAIN MergeIn[FirstIdx(Cell(MergeIn[i], "url"))] :
                        MergeOut[k][c] = Empty
    /\ loaded.state = "loaded" =>
          /\ loaded.cols = Cols
          /\ \A k \in 1..Len(loaded.rows) :
                /\ DOMAIN loaded.rows[k] = Cols
                /\ \E n \in FileNames :
                      /\ Readable(files[n])
                      /\ \E i \in 1..Len(files[n].rows) :
                            LoadImageOf(loaded.rows[k], files[n].rows[i])
          /\ \A n \in FileNames :
                Readable(files[n]) =>
                    \A i \in 1..Len(files[n].rows) :
                        \E k \in 1..Len(loaded.rows) :
                            LoadImageOf(loaded.rows[k], files[n].rows[i])

\* C4 witness: an input table without a date column was merged and loaded.
C4_Witness ==
    /\ Merged
    /\ loaded.state = "loaded"
    /\ \E n \in {rss_csv, html_csv} :
          /\ Readable(files[n])
          /\ "date" \notin files[n].cols
          /\ files[n].rows # <<>>
    /\ \E k \in 1..Len(loaded.rows) : loaded.rows[k]["date"] = Empty

----------------------------------------------------------------------------
(* Claims about ingest_rss.py (SpecRss) *)

\* the sources the loop has been through
Processed == 1..Len(keptBy)

EntriesOf(s) == IF cfg[s].hasFeed THEN cfg[s].entries ELSE <<>>

\* the date main() gives an entry: its parsed date, or the current time
ParsedDate(e) == IF parse_date(e.published) # None THEN parse_date(e.published) ELSE NowIso

\* entry i of source s produced one of the rows the source appended
Emitted(s, i) ==
    \E k \in 1..Len(keptBy[s]) :
        /\ keptBy[s][k]["url"] = Strip(EntriesOf(s)[i].link)
        /\ keptBy[s][k]["date"] = ParsedDate(EntriesOf(s)[i])

\* the normalised urls the sources before s emitted
SeenBefore(s) ==
    UNION {{Norm(keptBy[t][k]["url"]) : k \in 1..Len(keptBy[t])} : t \in 1..(s - 1)}

\* the entries of source s that have a link
Linked(s) == {i \in 1..Len(EntriesOf(s)) : EntriesOf(s)[i].link # Empty}

\* C7 (as stated): a source emits at most 8 entries, and a feed of more than 8
\* entries emits exactly its 8 entries of most recent parsed date.
C7_EightMostRecent ==
    \A s \in Processed :
        /\ Len(keptBy[s]) <= N_PER_SOURCE
        /\ Len(EntriesOf(s)) > N_PER_SOURCE =>
              /\ Len(keptBy[s]) = N_PER_SOURCE
              /\ \A i \in 1..Len(EntriesOf(s)) :
                    Cardinality({j \in 1..Len(EntriesOf(s)) \ {i} :
                                    ~StrLess(ParsedDate(EntriesOf(s)[j]),
                                             ParsedDate(EntriesOf(s)[i]))}) < N_PER_SOURCE
                    => Emitted(s, i)

\* C7 (amended): a source emits at most 8 entries, newest first, each a linked
\* entry of its feed; a linked entry that is not emitted either has a url already
\* emitted in this run (by an earlier source or by an emitted entry of the same
\* source, compared trimmed and lower-cased), or the source emitted 8 entries
\* each at least as recent as it.
C7_NewestUnseenKept ==
    \A s \in Processed :
        /\ Len(keptBy[s]) <= N_PER_SOURCE
        /\ \A k \in 1..(Len(keptBy[s]) - 1) :
              ~StrLess(keptBy[s][k]["date"], keptBy[s][k + 1]["date"])
        /\ \A k \in 1..Len(keptBy[s]) :
              \E i \in Linked(s) :
                 /\ keptBy[s][k]["url"] = Strip(EntriesOf(s)[i].link)
                 /\ keptBy[s][k]["date"] = ParsedDate(EntriesOf(s)[i])
        /\ \A i \in Linked(s) :
              \/ Emitted(s, i)
              \/ Norm(EntriesOf(s)[i].link) \in SeenBefore(s)
              \/ \E k \in 1..Len(keptBy[s]) :
                    Norm(keptBy[s][k]["url"]) = Norm(EntriesOf(s)[i].link)
              \/ /\ Len(keptBy[s]) = N_PER_SOURCE
                 /\ \A k \in 1..Len(keptBy[s]) :
                       ~StrLess(keptBy[s][k]["date"], ParsedDate(EntriesOf(s)[i]))

\* C7 witness: a feed of more than 8 entries, one of its 8 most recent dropped
\* as a duplicate, and 8 entries emitted all the same.
C7_Witness ==
    \E s \in Processed :
        /\ Len(EntriesOf(s)) > N_PER_SOURCE
        /\ Len(keptBy[s]) = N_PER_SOURCE
        /\ \E i \in Linked(s) :
              /\ ~Emitted(s, i)
              /\ Cardinality({j \in 1..Len(EntriesOf(s)) \ {i} :
                                  ~StrLess(ParsedDate(EntriesOf(s)[j]),
                                           ParsedDate(EntriesOf(s)[i]))}) < N_PER_SOURCE

\* the distinct normalised urls of source s that no earlier source emitted
NewUrls(s) == {Norm(EntriesOf(s)[i].link) : i \in Linked(s)} \ SeenBefore(s)

\* C8: no two emitted records have urls equal after trimming and lower-casing,
\* across all sources of the run and in the table written; an entry dropped as
\* already seen does not use up the source's cap of 8.
C8_GlobalDedup ==
    /\ \A i, j \in 1..Len(rows) : i # j => Norm(rows[i]["url"]) # Norm(rows[j]["url"])
    /\ \A s \in Processed :
          Len(keptBy[s]) = (IF Cardinality(NewUrls(s)) < N_PER_SOURCE
                            THEN Cardinality(NewUrls(s)) ELSE N_PER_SOURCE)
    /\ pc = "rss_done" =>
          /\ Len(files[rss_csv].rows) = Len(rows)
          /\ {files[rss_csv].rows[i] : i \in 1..Len(rows)} = {rows[i] : i \in 1..Len(rows)}
          /\ \A i, j \in 1..Len(rows) :
                i # j => Norm(files[rss_csv].rows[i]["url"]) # Norm(files[rss_csv].rows[j]["url"])

\* C8 witness: the table is written; a later source had entries whose url an
\* earlier source had emitted, they were dropped, and it still emitted 8.
C8_Witness ==
    /\ pc = "rss_done"
    /\ \E s \in Processed :
          /\ s > 1
          /\ Len(keptBy[s]) = N_PER_SOURCE
          /\ \E i \in Linked(s) : Norm(EntriesOf(s)[i].link) \in SeenBefore(s)
          /\ \E i \in Linked(s) :
                /\ EntriesOf(s)[i].link # Lower(EntriesOf(s)[i].link)
                /\ ~Emitted(s, i)

----------------------------------------------------------------------------
(* Claims about the publish pipeline (SpecPublish) *)

\* C3: after every completed run of publish.py the table articles.csv holds no
\* two rows with the same url.
C3_FinalUrlsUnique ==
    (pc = "done" /\ files[final_csv].kind = "csv") =>
        \A i, j \in 1..Len(files[final_csv].rows) :
            i # j => files[final_csv].rows[i]["url"] # files[final_csv].rows[j]["url"]

\* C5: when a stage of the run failed, every csv file that was present and whole
\* before the run is present and whole after it (its old content or a completely
\* written new one).
C5_FailureKeepsOutputs ==
    (pc \in {"done", "exit", "killed"} /\ failed) =>
        \A n \in FileNames : before[n] => Whole(files[n])

\* C6: no file is written, renamed or replaced by more than one stage, and
\* articles.csv is written by the merge alone.
C6_OneWriterPerFile ==
    /\ \A n \in FileNames : Cardinality(writers[n]) <= 1
    /\ writers[final_csv] \subseteq {"merge"}

----------------------------------------------------------------------------
(* Claims about ingest_urls.py (SpecFetch) *)

Fetching == pc \in {"fetch_loop", "fetch_done"}

\* the sources the loop has been through
Fetched == 1..(fetchIdx - 1)

\* the manifest row of the k-th source of this run
RowOf(k) == manifest.rows[Len(manifest0.rows) + k]

\* C9: a run appends exactly one manifest row per source, in configuration
\* order, with a status among the four; a source that is invalid, blocked or
\* fails does not stop the loop (the run ends only after the last source); and
\* the rows the manifest held at the start stay as they were.
C9_OneRowPerSource ==
    Fetching =>
       /\ Len(manifest.rows) = Len(manifest0.rows) + Cardinality(Fetched)
       /\ SubSeq(manifest.rows, 1, Len(manifest0.rows)) = manifest0.rows
       /\ \A k \in Fetched :
             /\ RowOf(k)["url"] = Strip(urlSources[k].url)
             /\ RowOf(k)["language"] = urlSources[k].language
             /\ RowOf(k)["status"] \in Statuses
             /\ DOMAIN RowOf(k) = ManifestHeader
       /\ pc = "fetch_done" => Cardinality(Fetched) = Len(urlSources)

\* C9 witness: a finished run over three sources, on top of an earlier
\* manifest, whose first two sources were skipped or failed in two different
\* ways and whose last source was fetched.
C9_Witness ==
    /\ pc = "fetch_done"
    /\ Len(urlSources) = 3
    /\ manifest0.rows # <<>>
    /\ Len(manifest.rows) = Len(manifest0.rows) + 3
    /\ RowOf(1)["status"] \in {"skip_invalid_url", "blocked_by_robots"}
    /\ RowOf(2)["status"] = "error"
    /\ RowOf(3)["status"] = "ok"

----------------------------------------------------------------------------
(* Claims about apply_date_filter (SpecQuery) *)

Filtered == pc = "filtered"

\* date_key is "<N>d"
DaysKey == Len(date_key) > 1 /\ date_key[Len(date_key)] = "d" /\ IsDigits(Front(date_key))

DaysOf == ToInt(Front(date_key))

\* t >= now - n days, without forming now - n days
WithinDays(t, n) ==
    t.day + n > now.day \/ (t.day + n = now.day /\ t.sec >= now.sec)

\* rows i of qdf whose date parses to an instant within the last DaysOf days
InWindow ==
    {i \in 1..Len(qdf) :
        /\ to_datetime(qdf[i]["date"]) # NaT
        /\ WithinDays(to_datetime(qdf[i]["date"]), DaysOf)}

\* the rows of s at the indexes of idx, in the order of s
RECURSIVE Restrict(_, _)
Restrict(s, idx) ==
    IF s = <<>> THEN <<>>
    ELSE Restrict(Front(s), idx) \o (IF Len(s) \in idx THEN <<s[Len(s)]>> ELSE <<>>)

\* now - DaysOf days is a datetime: not before 0001-01-01, within a timedelta
Representable == DaysOf <= MaxTimedeltaDays /\ now.day - DaysOf >= MinOrdinal

\* C10 as stated: for every date_key "<N>d" the rows kept are exactly those
\* whose date parses to an instant t >= now - N days, rows with an empty or
\* unparsable date being excluded; an empty date_key excludes nothing.
C10_DateWindow ==
    Filtered =>
       /\ date_key = <<>> => qout = qdf
       /\ DaysKey => qout = Restrict(qdf, InWindow)

\* C10 amended: the same for every "<N>d" for which now - N days is a
\* datetime; for a larger N nothing is filtered, and rows with an empty or
\* unparsable date are returned with the others.
C10_DateWindowRepresentable ==
    Filtered =>
       /\ date_key = <<>> => qout = qdf
       /\ (DaysKey /\ Representable) => qout = Restrict(qdf, InWindow)
       /\ (DaysKey /\ ~Representable) => qout = qdf

\* C10 witness: date_key "7d" at 2024-01-10T00:00:00Z over a row dated
\* 2024-01-02T23:59:59Z and a row dated 2024-01-03T00:00:01Z keeps the second
\* row only.
C10_Witness ==
    /\ Filtered
    /\ date_key = <<"7", "d">>
    /\ now = [day |-> Jan2024(10), sec |-> 0]
    /\ Len(qdf) = 2
    /\ qdf[1]["date"] = DateText("iso", Jan2024(2), 86399, 0)
    /\ qdf[2]["date"] = DateText("iso", Jan2024(3), 1, 0)
    /\ qout = <<qdf[2]>>

----------------------------------------------------------------------------
(* Claims about the metrics endpoints (SpecMetrics) *)

CountsDescending == \A i, j \in 1..Len(data) : i < j => data[i].count >= data[j].count

DaysAscending == \A i, j \in 1..Len(data) : i < j => data[i].date < data[j].date

\* the rows of the filtered frame whose date parses to UTC day dd
OnDay(dd) ==
    {i \in 1..Len(qout) :
        to_datetime(qout[i]["date"]) # NaT /\ to_datetime(qout[i]["date"]).day = dd}

\* the rows of the filtered frame counted under label l for column c
Labelled(c, l) ==
    {i \in 1..Len(qout) :
        IF qout[i][c] \in {NaN, Empty} THEN l = Unknown ELSE qout[i][c] = l}

\* the labels of column c that the filtered frame holds
LabelsOf(c) == {l \in {qout[i][c] : i \in 1..Len(qout)} \cup {Unknown} : Labelled(c, l) # {}}

\* the per-day counts are those of the rows with a parsable date, one point
\* per UTC day
VolumeCounts ==
    /\ \A k \in 1..Len(data) : data[k].count = Cardinality(OnDay(data[k].date))
    /\ \A k \in 1..Len(data) : data[k].count > 0
    /\ \A i \in 1..Len(qout) :
          to_datetime(qout[i]["date"]) # NaT =>
             \E k \in 1..Len(data) : data[k].date = to_datetime(qout[i]["date"]).day

\* the per-label counts are those of the rows, empty and missing values under
\* "Unknown"; the first n labels are listed and none left out has more rows
\* than one that is listed
LabelCountsOf(c, n) ==
    /\ \A k \in 1..Len(data) : data[k].count = Cardinality(Labelled(c, data[k].label))
    /\ \A j, k \in 1..Len(data) : j # k => data[j].label # data[k].label
    /\ {data[k].label : k \in 1..Len(data)} \subseteq LabelsOf(c)
    /\ Len(data) = IF Cardinality(LabelsOf(c)) < n THEN Cardinality(LabelsOf(c)) ELSE n
    /\ \A l \in LabelsOf(c) \ {data[k].label : k \in 1..Len(data)} :
          \A k \in 1..Len(data) : Cardinality(Labelled(c, l)) <= data[k].count

\* C11 as stated: each of the three endpoints returns its grouped counts in
\* descending order of count; the per-day counts leave out rows with a missing
\* or unparsable date; empty languages and sources are counted as "Unknown".
C11_AllByCountDescending ==
    /\ pc \in {"volume", "languages", "sources"} => CountsDescending
    /\ pc = "volume" => VolumeCounts
    /\ pc = "languages" => LabelCountsOf("language", Len(qout))
    /\ pc = "sources" => LabelCountsOf("source", top_n)

\* C11 amended: the per-language and per-source counts are in descending order
\* of count, the per-day counts in ascending order of day; the counts are as
\* stated.
C11_VolumeByDayAscending ==
    /\ pc \in {"languages", "sources"} => CountsDescending
    /\ pc = "volume" => DaysAscending /\ VolumeCounts
    /\ pc = "languages" => LabelCountsOf("language", Len(qout))
    /\ pc = "sources" => LabelCountsOf("source", top_n)

\* C11 witness: the volume of three rows, one on the 2nd of January (UTC) and
\* two on the 3rd, is returned as the 2nd with count 1, then the 3rd with
\* count 2.
C11_Witness ==
    /\ pc = "volume"
    /\ Len(qout) = 3
    /\ data = <<[date |-> Jan2024(2), count |-> 1], [date |-> Jan2024(3), count |-> 2]>>

----------------------------------------------------------------------------
(* Claims about preprocess_html.py and extract_content.py (SpecPage) *)

\* the jsonl pages are those preprocess_html.py wrote of the html pages
Ranked == pc \in {"extract_content", "extracted"} /\ html # <<>>

SameKey(a, b) == a.p_count = b.p_count /\ a.length = b.length

\* the place of candidate i of the scan cs in descending order of
\* (p_count, length), candidates of equal key in the order of the scan
RankOf(cs, i) ==
    1 + Cardinality({j \in 1..Len(cs) : BlockGt(cs[j], cs[i])})
      + Cardinality({j \in 1..(i - 1) : SameKey(cs[j], cs[i])})

\* C12: the emitted list of a page is the first 10 (or fewer) of its
\* candidates in descending lexicographic order of (p_count, length),
\* candidates of equal key in scan order.
C12_RankedFirstTen ==
    Ranked =>
       \A k \in 1..Len(html) :
          /\ Len(pages[k].records) =
                (IF Len(html[k].cands) < BLOCK_LIMIT THEN Len(html[k].cands) ELSE BLOCK_LIMIT)
          /\ \A i \in 1..Len(html[k].cands) :
                RankOf(html[k].cands, i) <= BLOCK_LIMIT =>
                   pages[k].records[RankOf(html[k].cands, i)] = html[k].cands[i]

\* C12 witness: the blocks (3,100), (1,500), (3,50), scanned in this order,
\* are emitted as (3,100), (3,50), (1,500).
C12_Witness ==
    /\ Ranked
    /\ Len(html) = 1
    /\ html[1].cands = <<Candidate("main", 3, 100, "x"), Candidate("div", 1, 500, "x"),
                         Candidate("div", 3, 50, "x")>>
    /\ pages[1].records = <<Candidate("main", 3, 100, "x"), Candidate("div", 3, 50, "x"),
                            Candidate("div", 1, 500, "x")>>

\* the pages that have a record
WithRecords == {k \in 1..Len(pages) : pages[k].records # <<>>}

\* the place in articles.csv of the row of page k
RowPlace(k) == Cardinality({j \in WithRecords : j <= k})

\* record b of page k is the first of the ranked list: no record has a
\* greater key and every record before it has a smaller one
FirstRanked(k, b) ==
    /\ \A j \in 1..Len(pages[k].records) : ~BlockGt(pages[k].records[j], pages[k].records[b])
    /\ \A j \in 1..(b - 1) : BlockGt(pages[k].records[b], pages[k].records[j])

\* C13: a page with no candidate gives no record; any other page gives exactly
\* one record, whose body is the first 2,000 characters of the text of the
\* first candidate of the ranked list.
C13_OneRecordPerPage ==
    pc = "extracted" =>
       /\ Len(files[final_csv].rows) = Cardinality(WithRecords)
       /\ \A k \in WithRecords :
             /\ files[final_csv].rows[RowPlace(k)]["url"] = pages[k].url
             /\ \E b \in 1..Len(pages[k].records) :
                   /\ FirstRanked(k, b)
                   /\ files[final_csv].rows[RowPlace(k)]["body"] =
                         Take(pages[k].records[b].text, BODY_CAP)

\* C13 witness: a page with no candidate and a page whose best candidate is
\* its second record, with a text of more than 2,000 characters, give one
\* record with a body of 2,000 characters.
C13_Witness ==
    /\ pc = "extracted"
    /\ Len(pages) = 2
    /\ pages[1].records = <<>>
    /\ pages[2].records =
          <<Candidate("div", 1, 500, "x"), Candidate("section", 3, BODY_CAP + 1, "x")>>
    /\ Len(files[final_csv].rows) = 1
    /\ Len(files[final_csv].rows[1]["body"]) = BODY_CAP

----------------------------------------------------------------------------
(* Claims about the final merge within a run (SpecPublish) *)

\* the input table n does not exist or cannot be read (it is empty)
Unusable(n) == files[n].kind # "csv" \/ files[n].cols = {}

\* the merge step runs to its end
MergeStep == pc = "merge" /\ pc' \in {"done", "exit"}

\* C14: with no input that exists and can be read, the merge step leaves
\* articles.csv as it was (and creates none) and the run ends normally; with
\* one input unreadable and the other valid it merges the valid one alone.
C14_NoUsableInput ==
    [][/\ (MergeStep /\ Unusable(rss_csv) /\ Unusable(html_csv)) =>
             (files' = files /\ pc' = "done" /\ rc' = 0)
       /\ (MergeStep /\ Unusable(rss_csv) /\ ~Unusable(html_csv)) =>
             files'[final_csv] = to_csv(Merge(<<read_csv(files[html_csv])>>))
       /\ (MergeStep /\ ~Unusable(rss_csv) /\ Unusable(html_csv)) =>
             files'[final_csv] = to_csv(Merge(<<read_csv(files[rss_csv])>>))]_vars

\* C14 witness: a run ended normally after a merge step that found only an
\* unreadable articles_rss.csv and wrote nothing over the articles.csv of an
\* earlier run.
C14_Witness ==
    /\ pc = "done"
    /\ rc = 0
    /\ frames = <<>>
    /\ files[rss_csv].kind = "csv"
    /\ files[rss_csv].cols = {}
    /\ files[html_csv] = Absent
    /\ Whole(files[final_csv])
    /\ writers[final_csv] = {}

----------------------------------------------------------------------------
(* Claims about repeated merges (SpecRerun) *)

\* C15: of two runs of publish.py --merge-only in a row, the second ends with
\* the articles.csv the first ended with, and with the same input tables.
C15_MergeIdempotent ==
    \A i \in 1..(Len(ended) - 1) : ended[i + 1] = ended[i]

\* C15 witness: the second run has ended, over two readable inputs whose rows
\* share a url, with a merged table of two rows.
C15_Witness ==
    /\ pc = "done"
    /\ Len(ended) = 2
    /\ Len(frames) = 2
    /\ Len(MergeIn) = 3
    /\ Len(files[final_csv].rows) = 2

----------------------------------------------------------------------------
(* Claims about the table ingest_rss.py writes (SpecRss) *)

RssRows == files[rss_csv].rows

\* all the entries with a link of the configuration, as <<source, entry>>
AllLinked == UNION {{<<s, i>> : i \in Linked(s)} : s \in 1..Len(cfg)}

LinkOf(si_) == EntriesOf(si_[1])[si_[2]].link

\* row r is the record of entry i of source s
RecordOf(r, s, i) ==
    /\ r["url"] = Strip(EntriesOf(s)[i].link)
    /\ r["date"] = ParsedDate(EntriesOf(s)[i])
    /\ r["source"] = cfg[s].name

\* the cap is out of play: no source has more than N_PER_SOURCE entries with a link
UnderCap == \A s \in 1..Len(cfg) : Cardinality(Linked(s)) <= N_PER_SOURCE

\* C16: an entry with an empty or missing link gives no record; under the cap,
\* every entry with a link gives exactly one record, or shares the one record
\* of its url with its duplicates; the table is sorted descending by date.
C16_LinkedEntriesOnly ==
    pc = "rss_done" =>
       /\ \A k \in 1..Len(RssRows) :
             \E e \in AllLinked : RecordOf(RssRows[k], e[1], e[2])
       /\ UnderCap =>
             \A e \in AllLinked :
                /\ Cardinality({k \in 1..Len(RssRows) :
                                   Norm(RssRows[k]["url"]) = Norm(LinkOf(e))}) = 1
                /\ (\A d \in AllLinked : d # e => Norm(LinkOf(d)) # Norm(LinkOf(e))) =>
                      \E k \in 1..Len(RssRows) : RecordOf(RssRows[k], e[1], e[2])
       /\ \A j, k \in 1..Len(RssRows) :
             j < k => ~StrLess(RssRows[j]["date"], RssRows[k]["date"])

\* C16 witness: one feed of three entries dated 01, 02, 03, the second without
\* a link, gives the two records dated 03 and 01, in this order.
C16_Witness ==
    /\ pc = "rss_done"
    /\ Len(cfg) = 1
    /\ Len(EntriesOf(1)) = 3
    /\ EntriesOf(1)[2].link = Empty
    /\ [i \in 1..3 |-> EntriesOf(1)[i].published] = <<Dec(1) \o <<"Z">>, Dec(2) \o <<"Z">>,
                                                      Dec(3) \o <<"Z">>>>
    /\ Len(RssRows) = 2
    /\ RssRows[1]["date"] = Dec(3)
    /\ RssRows[2]["date"] = Dec(1)

----------------------------------------------------------------------------
(* Claims about a whole run of publish.py (SpecPublish) *)

\* a run with the HTML pipeline that reached its end: its extract step
\* succeeded on the first or on the second attempt
HtmlRunDone == pc = "done" /\ args.with_html /\ ~args.merge_only

\* C17: a run with --with-html whose extract step succeeded ends with
\* articles_html.csv holding the records extracted in this run, and its final
\* merge read them.
C17_HtmlHandoffFresh ==
    HtmlRunDone =>
       /\ files[html_csv] = ExtractTable(pages)
       /\ frames # <<>>
       /\ frames[Len(frames)] = read_csv(ExtractTable(pages))

----------------------------------------------------------------------------
(* Claims about the robots policy of ingest_urls.py (SpecFetch) *)

Http == <<"h", "t", "t", "p">>

\* the answers the robots.txt lookups of source k met
Met(k) == {l[2] : l \in {x \in lookups : x[1] = k}}

\* a pass of the loop, over the source fetchIdx
LoopPass ==
    /\ pc = "fetch_loop"
    /\ fetchIdx <= Len(urlSources)
    /\ fetchIdx' = fetchIdx + 1

\* the pass requested nothing and wrote no artifact, and its manifest row
\* names no path and has the given status
LeftAlone(status) ==
    LET row == manifest'.rows[Len(manifest0.rows) + fetchIdx]
    IN /\ fetchIdx \notin requested'
       /\ raw' = raw
       /\ row["path"] = Empty
       /\ row["status"] = status

\* a pass over a url not starting with "http" looks up no robots.txt; unless
\* robots.txt is ignored, a pass over a valid url looks robots.txt up, and
\* when the lookup meets one of the refusing answers the source is left alone
RobotsPolicy(refusing) ==
    LoopPass =>
       LET valid == StartsWith(Strip(urlSources[fetchIdx].url), Http)
           met == {l[2] : l \in {x \in lookups' : x[1] = fetchIdx}}
       IN /\ ~valid => met = {} /\ LeftAlone("skip_invalid_url")
          /\ (valid /\ ~ignore_robots) =>
                /\ met # {}
                /\ met \cap refusing # {} => LeftAlone("blocked_by_robots")

\* robots.txt answered with a 4xx status other than 401 and 403 counts as
\* allowing everything: the source is requested
MissingAllows ==
    (LoopPass /\ <<fetchIdx, "missing">> \in lookups') => fetchIdx \in requested'

----------------------------------------------------------------------------
(* Claims about the order of the stages of publish.py (SpecPublish) *)

StageOrder == <<"ingest_rss", "ingest_urls", "preprocess_html", "extract_content">>

Rank(stage) == CHOOSE i \in DOMAIN StageOrder : StageOrder[i] = stage

\* the stages the arguments of the run enable, the merge apart
EnabledStages ==
    (IF ~args.skip_rss /\ ~args.merge_only THEN {"ingest_rss"} ELSE {}) \cup
    (IF args.with_html /\ ~args.merge_only
     THEN {"ingest_urls", "preprocess_html", "extract_content"} ELSE {})

StageOf(i) == steps[i][1]

CodeOf(i) == steps[i][2]

StagesRun == {StageOf(i) : i \in DOMAIN steps}

\* the run is at its merge step or past it
AtMerge == pc \in {"merge", "done", "killed"}

\* every step started after the steps of the stages before it had ended; the
\* one stage that runs twice is extract, when its first attempt failed
InOrder ==
    \A i, j \in DOMAIN steps :
       i < j => \/ Rank(StageOf(i)) < Rank(StageOf(j))
                \/ /\ StageOf(i) = "extract_content" /\ StageOf(j) = "extract_content"
                   /\ j = i + 1 /\ j = Len(steps)
                   /\ CodeOf(i) # 0

\* both extract attempts failed, the second being the last step
ExtractFailedTwice ==
    /\ Len(steps) >= 2
    /\ \A i \in {Len(steps) - 1, Len(steps)} :
          StageOf(i) = "extract_content" /\ CodeOf(i) # 0

\* C19: the enabled stages run in the order RSS ingest, HTML ingest,
\* preprocess, extract, merge, one after the other; after RSS ingest or HTML
\* ingest, whatever its exit code, the run is at the next enabled stage; the
\* run reaches the merge only after every enabled stage, with preprocess and
\* the last extract attempt exited 0; it ends before the merge only when
\* preprocess or both extract attempts failed, and then with that exit code;
\* with --merge-only no stage but the merge runs.
C19_StageOrder ==
    /\ InOrder
    /\ StagesRun \subseteq EnabledStages
    /\ args.merge_only => steps = <<>>
    /\ (steps # <<>> /\ StageOf(Len(steps)) = "ingest_rss") =>
          IF args.with_html THEN pc = "html_ingest" ELSE AtMerge
    /\ (steps # <<>> /\ StageOf(Len(steps)) = "ingest_urls") => pc = "preprocess"
    /\ AtMerge =>
          /\ StagesRun = EnabledStages
          /\ \A i \in DOMAIN steps :
                CodeOf(i) # 0 =>
                   \/ StageOf(i) \in {"ingest_rss", "ingest_urls"}
                   \/ StageOf(i) = "extract_content" /\ i < Len(steps)
    /\ pc = "exit" =>
          /\ steps # <<>>
          /\ StageOf(Len(steps)) = "preprocess_html" \/ ExtractFailedTwice
          /\ CodeOf(Len(steps)) # 0
          /\ rc = CodeOf(Len(steps))
          /\ frames = <<>> /\ ended = <<>>
          /\ "merge" \notin writers[final_csv]

\* C19 witness: a run with every stage enabled ended after the merge although
\* RSS ingest, HTML ingest and the first extract attempt exited non-zero.
C19_Witness ==
    /\ pc = "done"
    /\ rc = 0
    /\ steps = <<<<"ingest_rss", 1>>, <<"ingest_urls", 2>>, <<"preprocess_html", 0>>,
                 <<"extract_content", 1>>, <<"extract_content", 0>>>>
    /\ "merge" \in writers[final_csv]

====
